---------------------------- MODULE Spec2Model ----------------------------
(***************************************************************************)
(* Participant-name resolution, message classification and the message     *)
(* pipeline of the two chat applications (mobile employee app, web HR      *)
(* dashboard).                                                             *)
(*                                                                         *)
(* JavaScript strings are sequences of one-character strings; JavaScript   *)
(* values are records [t, v] (t the type tag, v the payload).  JSON.parse  *)
(* and JSON.stringify are modelled by what they do on that representation. *)
(***************************************************************************)
EXTENDS Integers, Sequences, FiniteSets, TLC

VARIABLES
    \* ---- resolution / classification (pure functions applied to inputs)
    conv,        \* the conversation record under resolution
    sender,      \* senderId of the message under classification
    out,         \* result of the last resolver / classifier that ran
    \* ---- message store and the two apps' message lists
    store,       \* message documents of the conversation: id -> timestamp
    clock,       \* device clock of the mobile app (Date.now())
    snapshot,    \* the document list last handed to the listeners' callbacks
    mobMessages, \* mobile useChat `messages` state
    dashMessages,\* dashboard useChat `messages` state (raw, before sortedMessages)
    \* ---- useChat effect life cycle
    employeeId,  \* mobile useChat option employeeId (the open conversation)
    effects,     \* runs of the mobile realtime useEffect
    conversation,\* mobile useChat `conversation` state (id of the loaded record)
    dashSelected,\* dashboard currentEmployeeId
    dashSubs,    \* conversations whose dashboard message listener is attached
    \* ---- conversation lists and the hooks' loading / error state
    convStore,        \* conversations collection: id -> lastMessageTimestamp
    mobConversations, \* mobile useConversations `conversations` state
    dashConversations,\* dashboard useChat `conversations` state
    status,           \* per subscription: listener, loading state, error
    \* ---- writes to one conversation and its messages subcollection
    convDoc,          \* the conversation document
    sentMessages,     \* the message documents, in commit (timestamp) order
    calls,            \* the service calls in flight
    \* ---- the mobile useChat's idea of who the employee is
    storage,             \* AsyncStorage: EMPLOYEE_ID and EMPLOYEE_NAME
    mobEmployeeName,     \* mobile useChat `currentEmployeeName` state
    lastSend,            \* the latest sendMessage call of the mobile sendChatMessage
    \* ---- dashboard useChat selection
    dashError,           \* dashboard useChat `error` state
    \* ---- useMultipleRealtime
    multi                \* listeners, combinedData, loadedCount, loading

vars == << conv, sender, out, store, clock, snapshot, mobMessages, dashMessages,
           employeeId, effects, conversation, dashSelected, dashSubs,
           convStore, mobConversations, dashConversations, status,
           convDoc, sentMessages, calls,
           storage, mobEmployeeName, lastSend, dashError, multi >>

rosterVars == << conv, sender, out >>
msgVars    == << store, clock, snapshot >>
listVars   == << mobMessages, dashMessages >>
idVars     == << storage, mobEmployeeName, lastSend >>
selVars    == << dashError >>
moreVars   == << idVars, selVars, multi >>
hookVars   == << employeeId, effects, conversation, dashSelected, dashSubs, moreVars >>
dirVars    == << convStore, mobConversations, dashConversations, status >>
sendVars   == << convDoc, sentMessages, calls >>
extVars    == << dirVars, sendVars, moreVars >>

-----------------------------------------------------------------------------
(* JavaScript values *)

Str(s)    == [t |-> "str",   v |-> s]
Num(d)    == [t |-> "num",   v |-> d]
Arr(a)    == [t |-> "arr",   v |-> a]
JNull     == [t |-> "null",  v |-> <<>>]
Undefined == [t |-> "undef", v |-> <<>>]
JTrue     == [t |-> "bool",  v |-> <<"true">>]
JFalse    == [t |-> "bool",  v |-> <<"false">>]
\* an exception propagating out of the evaluated function
Thrown    == [t |-> "throw", v |-> <<>>]

IsStr(x) == x.t = "str"
IsArr(x) == x.t = "arr"

\* !x
Falsy(x) ==
    \/ x.t \in {"undef", "null"}
    \/ x.t = "str" /\ x.v = <<>>
    \/ x.t = "num" /\ x.v = <<"0">>
    \/ x = JFalse

\* x === y (two arrays are the same object only when they are the same value
\* read from the same place; the code never compares arrays)
StrictEq(x, y) == x.t = y.t /\ x.t # "arr" /\ x.v = y.v

Whitespace == {" ", "\t", "\n"}
Digits     == {"0", "1", "2", "3", "4", "5", "6", "7", "8", "9"}
UpperSeq   == << "A", "B", "C", "D", "E", "F", "G", "H", "I", "J", "K", "L", "M",
                 "N", "O", "P", "Q", "R", "S", "T", "U", "V", "W", "X", "Y", "Z" >>
LowerSeq   == << "a", "b", "c", "d", "e", "f", "g", "h", "i", "j", "k", "l", "m",
                 "n", "o", "p", "q", "r", "s", "t", "u", "v", "w", "x", "y", "z" >>
Upper      == {UpperSeq[i] : i \in DOMAIN UpperSeq}
Lower      == {LowerSeq[i] : i \in DOMAIN LowerSeq}
WordChar   == Upper \cup Lower \cup Digits \cup {"_"}

\* toUpperCase / toLowerCase of one character
ToUpperChar(c) ==
    IF c \in Lower THEN UpperSeq[CHOOSE i \in DOMAIN LowerSeq : LowerSeq[i] = c] ELSE c
ToLowerChar(c) ==
    IF c \in Upper THEN LowerSeq[CHOOSE i \in DOMAIN UpperSeq : UpperSeq[i] = c] ELSE c
ToLowerCase(s) == [i \in DOMAIN s |-> ToLowerChar(s[i])]

\* String.prototype.startsWith / includes / trim / substring(0, n)
Range(f) == { f[i] : i \in DOMAIN f }

StartsWith(s, p) == Len(s) >= Len(p) /\ SubSeq(s, 1, Len(p)) = p
Includes(s, p) ==
    \E i \in 1..(Len(s) + 1) : i + Len(p) - 1 <= Len(s) /\ SubSeq(s, i, i + Len(p) - 1) = p

RECURSIVE TrimStart(_)
TrimStart(s) == IF s # <<>> /\ Head(s) \in Whitespace THEN TrimStart(Tail(s)) ELSE s
RECURSIVE TrimEnd(_)
TrimEnd(s) ==
    IF s # <<>> /\ s[Len(s)] \in Whitespace THEN TrimEnd(SubSeq(s, 1, Len(s) - 1)) ELSE s
Trim(s) == TrimEnd(TrimStart(s))

Substring0(s, n) == SubSeq(s, 1, IF Len(s) < n THEN Len(s) ELSE n)

-----------------------------------------------------------------------------
(* JSON.parse: arrays, strings (with the escapes \" \\ \/), non-negative    *)
(* integers, null, true, false.  Objects, fractions, exponents and \u       *)
(* escapes are outside the alphabet of the inputs below.                    *)

ParseFail == [ok |-> FALSE, val |-> Undefined, pos |-> 0]
ParseOk(v, p) == [ok |-> TRUE, val |-> v, pos |-> p]

RECURSIVE SkipWs(_, _)
SkipWs(s, i) == IF i <= Len(s) /\ s[i] \in Whitespace THEN SkipWs(s, i + 1) ELSE i

LitAt(s, i, lit) == i + Len(lit) - 1 <= Len(s) /\ SubSeq(s, i, i + Len(lit) - 1) = lit

RECURSIVE ParseString(_, _, _)
ParseString(s, i, acc) ==
    IF i > Len(s) THEN ParseFail
    ELSE IF s[i] = "\"" THEN ParseOk(Str(acc), i + 1)
    ELSE IF s[i] \in {"\t", "\n"} THEN ParseFail
    ELSE IF s[i] = "\\"
         THEN IF i + 1 <= Len(s) /\ s[i + 1] \in {"\"", "\\", "/"}
              THEN ParseString(s, i + 2, Append(acc, s[i + 1]))
              ELSE ParseFail
    ELSE ParseString(s, i + 1, Append(acc, s[i]))

RECURSIVE NumEnd(_, _)
NumEnd(s, i) == IF i <= Len(s) /\ s[i] \in Digits THEN NumEnd(s, i + 1) ELSE i

ParseNumberTo(s, i, j) == ParseOk(Num(SubSeq(s, i, j - 1)), j)
ParseNumber(s, i) == ParseNumberTo(s, i, IF s[i] = "0" THEN i + 1 ELSE NumEnd(s, i))

RECURSIVE ParseValue(_, _)
RECURSIVE ParseElements(_, _, _)

\* after element e of an array, j past the whitespace that follows it
ParseElementsAt(s, e, j, acc) ==
    IF ~e.ok \/ j > Len(s) THEN ParseFail
    ELSE IF s[j] = "]" THEN ParseOk(Arr(Append(acc, e.val)), j + 1)
    ELSE IF s[j] = "," THEN ParseElements(s, SkipWs(s, j + 1), Append(acc, e.val))
    ELSE ParseFail

ParseElementsAfter(s, e, acc) == ParseElementsAt(s, e, SkipWs(s, e.pos), acc)

\* the elements of an array after "[" or after ","; i is past the whitespace
ParseElements(s, i, acc) == ParseElementsAfter(s, ParseValue(s, i), acc)

\* after "[", j past the whitespace that follows it
ParseArrayAt(s, j) ==
    IF j <= Len(s) /\ s[j] = "]" THEN ParseOk(Arr(<<>>), j + 1)
    ELSE ParseElements(s, j, <<>>)

ParseValue(s, i) ==
    IF i > Len(s) THEN ParseFail
    ELSE IF s[i] = "[" THEN ParseArrayAt(s, SkipWs(s, i + 1))
    ELSE IF s[i] = "\"" THEN ParseString(s, i + 1, <<>>)
    ELSE IF s[i] \in Digits THEN ParseNumber(s, i)
    ELSE IF LitAt(s, i, <<"n", "u", "l", "l">>) THEN ParseOk(JNull, i + 4)
    ELSE IF LitAt(s, i, <<"t", "r", "u", "e">>) THEN ParseOk(JTrue, i + 4)
    ELSE IF LitAt(s, i, <<"f", "a", "l", "s", "e">>) THEN ParseOk(JFalse, i + 5)
    ELSE ParseFail

\* the whole text must be one value
ParseWhole(s, r) ==
    IF r.ok /\ SkipWs(s, r.pos) = Len(s) + 1
    THEN [ok |-> TRUE, val |-> r.val]
    ELSE [ok |-> FALSE, val |-> Undefined]

\* JSON.parse(s): ok = FALSE is the SyntaxError
JSONparse(s) == ParseWhole(s, ParseValue(s, SkipWs(s, 1)))

\* JSON.stringify of a string: quoted, with " and \ escaped
RECURSIVE Escape(_)
Escape(s) ==
    IF s = <<>> THEN <<>>
    ELSE (IF Head(s) \in {"\"", "\\"} THEN <<"\\", Head(s)>> ELSE <<Head(s)>>)
         \o Escape(Tail(s))
Quote(s) == <<"\"">> \o Escape(s) \o <<"\"">>

\* the JSON text of the pair [a, b], with separator sep ("," as JSON.stringify
\* writes it, ", " as the records in the store were typed)
JSONpair(a, b, sep) == <<"[">> \o Quote(a) \o sep \o Quote(b) \o <<"]">>

-----------------------------------------------------------------------------
(* Program constants *)

\* the "(HR)" role marker embedded in staff display names
HR_MARKER == << "(", "H", "R", ")" >>
\* HR_USER.NAME and HR_USER.ID of config/constants (abbreviated display name)
HR_USER_NAME == << "S", "(", "H", "R", ")" >>
HR_USER_ID   == << "h", "r", "_", "1" >>
\* the literal placeholder title
CONVERSATION == << "C", "o", "n", "v", "e", "r", "s", "a", "t", "i", "o", "n" >>

-----------------------------------------------------------------------------
(* Mobile app: useChat resolvers *)

\* the namesArray both useChat resolvers build; early = the `return null` of
\* the catch block of the string case
Mobile_namesOfElement(parsed, pn) ==
    IF parsed.ok /\ IsArr(parsed.val)
    THEN [early |-> FALSE, names |-> parsed.val.v]
    ELSE [early |-> FALSE, names |-> pn.v]

Mobile_namesOfString(parsed) ==
    IF ~parsed.ok THEN [early |-> TRUE, names |-> <<>>]
    ELSE IF IsArr(parsed.val) THEN [early |-> FALSE, names |-> parsed.val.v]
    ELSE [early |-> FALSE, names |-> <<>>]

Mobile_namesArray(pn) ==
    IF IsArr(pn) /\ Len(pn.v) > 0 THEN
        IF IsStr(pn.v[1]) /\ StartsWith(pn.v[1].v, <<"[">>)
        THEN Mobile_namesOfElement(JSONparse(pn.v[1].v), pn)
        ELSE [early |-> FALSE, names |-> pn.v]
    ELSE IF IsStr(pn) /\ StartsWith(pn.v, <<"[">>) THEN Mobile_namesOfString(JSONparse(pn.v))
    ELSE [early |-> FALSE, names |-> <<>>]

Mobile_second(r) ==
    IF r.early THEN JNull ELSE IF Len(r.names) >= 2 THEN r.names[2] ELSE JNull

Mobile_getEmployeeNameFromParticipantNames(c) ==
    IF Falsy(c.participantNames) THEN JNull
    ELSE Mobile_second(Mobile_namesArray(c.participantNames))

Mobile_first(r) ==
    IF r.early THEN JNull ELSE IF Len(r.names) > 0 THEN r.names[1] ELSE JNull

Mobile_getHRNameFromParticipantNames(c) ==
    IF Falsy(c.participantNames) THEN JNull
    ELSE Mobile_first(Mobile_namesArray(c.participantNames))

\* the hook's `conversation` state before any record was loaded
NoConversation == [id |-> <<>>, participantNames |-> Undefined, lastMessage |-> <<>>,
                   lastMessageSenderId |-> Undefined, loaded |-> FALSE]

Mobile_isHRName(senderId, c, hrName) ==
    IF c.loaded /\ ~Falsy(hrName)
    THEN StrictEq(Str(senderId), hrName)
    ELSE senderId = HR_USER_NAME \/ senderId = HR_USER_ID

\* isHRMessage(message) with the hook's `conversation` state c
Mobile_isHRMessage(senderId, c) ==
    Mobile_isHRName(senderId, c,
                    IF c.loaded THEN Mobile_getHRNameFromParticipantNames(c) ELSE JNull)

Mobile_isEmployeeName(senderId, c, employeeName) ==
    IF c.loaded /\ ~Falsy(employeeName)
    THEN StrictEq(Str(senderId), employeeName)
    ELSE FALSE

\* isSentMessage(message) with the hook's `currentEmployeeName` and `conversation`
Mobile_isSentMessage(senderId, currentEmployeeName, c) ==
    IF ~Falsy(currentEmployeeName) /\ StrictEq(Str(senderId), currentEmployeeName)
    THEN TRUE
    ELSE Mobile_isEmployeeName(senderId, c,
             IF c.loaded THEN Mobile_getEmployeeNameFromParticipantNames(c) ELSE JNull)

\* getMessageType(message): "sent" or "received"
Mobile_getMessageType(senderId, currentEmployeeName, c) ==
    IF Mobile_isSentMessage(senderId, currentEmployeeName, c) THEN "sent" ELSE "received"

-----------------------------------------------------------------------------
(* Mobile app: useConversations and ConversationItem *)

\* `parsed[0]` of an array text with at least one element, else `otherwise`
FirstOfParsed(parsed, otherwise) ==
    IF parsed.ok /\ IsArr(parsed.val) /\ Len(parsed.val.v) > 0
    THEN parsed.val.v[1] ELSE otherwise

getHRNameFromConversation(c) ==
    LET pn == c.participantNames
    IN  IF Falsy(pn) THEN Str(<<>>)
        ELSE IF IsArr(pn) /\ Len(pn.v) > 0 /\ IsStr(pn.v[1])
             THEN IF StartsWith(pn.v[1].v, <<"[">>)
                  THEN FirstOfParsed(JSONparse(pn.v[1].v), pn.v[1])
                  ELSE pn.v[1]
        ELSE IF IsStr(pn) /\ StartsWith(pn.v, <<"[">>)
             THEN FirstOfParsed(JSONparse(pn.v), Str(<<>>))
        ELSE Str(<<>>)

\* Array.prototype.find(name => name !== HR_USER.NAME)
FindNotHR(names) ==
    LET hits == {i \in DOMAIN names : ~StrictEq(names[i], Str(HR_USER_NAME))}
    IN  IF hits = {} THEN Undefined
        ELSE names[CHOOSE i \in hits : \A j \in hits : i <= j]

FoundOrEmpty(employeeName) == IF Falsy(employeeName) THEN Str(<<>>) ELSE employeeName

SecondOrNotHR(r) ==
    IF r.early THEN Str(<<>>)
    ELSE IF Len(r.names) >= 2 THEN r.names[2]
    ELSE IF Len(r.names) > 0 THEN FoundOrEmpty(FindNotHR(r.names))
    ELSE Str(<<>>)

getEmployeeNameFromConversation(c) ==
    IF Falsy(c.participantNames) THEN Str(<<>>)
    ELSE SecondOrNotHR(Mobile_namesArray(c.participantNames))

\* the `Safety check` of processedConversations on the resolved hrName;
\* Thrown when hrName.includes is not a function
SafeHRName(hrName, pn) ==
    IF ~Falsy(hrName) /\ ~IsArr(hrName) /\ ~IsStr(hrName) THEN Thrown
    ELSE IF /\ \/ Falsy(hrName)
               \/ IsArr(hrName)
               \/ Includes(hrName.v, <<"[">>)
               \/ Includes(hrName.v, <<",">>)
            /\ ~Falsy(pn) /\ IsArr(pn) /\ Len(pn.v) > 0
         THEN pn.v[1]
    ELSE hrName

ProcessedWith(c, hrName) ==
    IF hrName.t = "throw" THEN Thrown
    ELSE [ t |-> "obj",
           id |-> c.id,
           employeeName |-> IF Falsy(hrName) THEN Str(CONVERSATION) ELSE hrName,
           hrName |-> hrName,
           employeeNameInConv |-> getEmployeeNameFromConversation(c),
           lastMessage |-> c.lastMessage,
           lastMessageSenderId |->
               IF Falsy(c.lastMessageSenderId) THEN JNull ELSE c.lastMessageSenderId,
           participantNames |->
               IF Falsy(c.participantNames) THEN Arr(<<>>) ELSE c.participantNames ]

\* one element of processedConversations; Thrown when the map callback throws
processedConversation(c) ==
    ProcessedWith(c, SafeHRName(getHRNameFromConversation(c), c.participantNames))

\* ConversationItem.getConversationName() on a processed conversation
getConversationName(pc) ==
    LET pn == pc.participantNames
        last == IF IsStr(pc.employeeName) THEN pc.employeeName ELSE Str(CONVERSATION)
    IN  IF IsStr(pc.employeeName) /\ pc.employeeName.v # <<>>
           /\ ~StartsWith(pc.employeeName.v, <<"[">>)
           /\ ~Includes(pc.employeeName.v, <<"\"", ",", " ", "\"">>)
        THEN pc.employeeName
        ELSE IF ~Falsy(pn) /\ IsArr(pn) /\ Len(pn.v) > 0 /\ IsStr(pn.v[1])
             THEN IF StartsWith(pn.v[1].v, <<"[">>)
                  THEN FirstOfParsed(JSONparse(pn.v[1].v), pn.v[1])
                  ELSE pn.v[1]
        ELSE IF ~Falsy(pn) /\ IsStr(pn) /\ StartsWith(pn.v, <<"[">>)
             THEN FirstOfParsed(JSONparse(pn.v), last)
        ELSE last

\* the title the mobile list shows for a conversation record
TitleOf(pc) == IF pc.t = "throw" THEN Thrown ELSE getConversationName(pc)

Mobile_title(c) == TitleOf(processedConversation(c))

-----------------------------------------------------------------------------
(* Dashboard: chatService / MessageBubble / useChat *)

\* the namesArray of the dashboard resolvers (chatService and MessageBubble
\* getHRNameFromParticipantNames, useChat.isHRMessage, useChat.employeeList)
\* variant: a nested JSON text is left as the only element
Dash_namesUnparsed(parsed, pn) == pn.v

Dash_namesOfElement(parsed, pn) ==
    IF parsed.ok /\ IsArr(parsed.val) THEN parsed.val.v ELSE pn.v

Dash_namesOfString(parsed, pn) == IF parsed.ok THEN parsed.val.v ELSE << pn >>

Dash_namesArray(pn) ==
    IF IsArr(pn) THEN
        IF Len(pn.v) = 1 /\ IsStr(pn.v[1]) /\ StartsWith(pn.v[1].v, <<"[">>)
        THEN Dash_namesOfElement(JSONparse(pn.v[1].v), pn)
        ELSE pn.v
    ELSE IF IsStr(pn) /\ StartsWith(pn.v, <<"[">>) THEN Dash_namesOfString(JSONparse(pn.v), pn)
    ELSE <<>>

\* `namesArray.length > 0 && typeof namesArray[0] === 'string'`, then trim()
TrimmedFirst(namesArray) ==
    IF Len(namesArray) > 0 /\ IsStr(namesArray[1])
    THEN Str(Trim(namesArray[1].v))
    ELSE JNull

\* chatService.getHRNameFromParticipantNames (sendMessageFromHR's senderId)
Dash_getHRNameFromParticipantNames(pn) ==
    IF Falsy(pn) THEN JNull ELSE TrimmedFirst(Dash_namesArray(pn))

\* MessageBubble's own copy of the resolver
MessageBubble_getHRNameFromParticipantNames(pn) ==
    IF Falsy(pn) THEN JNull ELSE TrimmedFirst(Dash_namesArray(pn))

IsFromHRWith(senderId, hrName) ==
    \/ ~Falsy(hrName) /\ StrictEq(Str(senderId), hrName)
    \/ senderId # <<>> /\ Includes(senderId, HR_MARKER)
    \/ senderId = HR_USER_ID

\* MessageBubble: isFromHR, with the isHR prop as ChatWindow passes it (absent)
MessageBubble_isFromHR(senderId, pn) ==
    IsFromHRWith(senderId,
                 IF ~Falsy(pn) THEN MessageBubble_getHRNameFromParticipantNames(pn) ELSE JNull)

IsFirstTrimmed(senderId, namesArray) ==
    /\ Len(namesArray) > 0
    /\ IsStr(namesArray[1])
    /\ senderId = Trim(namesArray[1].v)

\* useChat.isHRMessage(message, participantNames)
Dash_isHRMessage(senderId, pn) ==
    IF senderId # <<>> /\ Includes(senderId, HR_MARKER) THEN TRUE
    ELSE IF senderId = HR_USER_ID THEN TRUE
    ELSE IF ~Falsy(pn) THEN IsFirstTrimmed(senderId, Dash_namesArray(pn))
    ELSE FALSE

-----------------------------------------------------------------------------
(* Dashboard: the directory (useChat.employeeList) *)

\* String.prototype.split('_')
RECURSIVE SplitUnderscore(_, _)
SplitUnderscore(s, cur) ==
    IF s = <<>> THEN << cur >>
    ELSE IF Head(s) = "_" THEN << cur >> \o SplitUnderscore(Tail(s), <<>>)
    ELSE SplitUnderscore(Tail(s), Append(cur, Head(s)))

\* word.charAt(0).toUpperCase() + word.slice(1)
Capitalize(word) == IF word = <<>> THEN <<>> ELSE << ToUpperChar(Head(word)) >> \o Tail(word)

\* Array.prototype.join(' ')
RECURSIVE JoinSpace(_)
JoinSpace(words) ==
    IF words = <<>> THEN <<>>
    ELSE IF Len(words) = 1 THEN Head(words)
    ELSE Head(words) \o << " " >> \o JoinSpace(Tail(words))

EMP_PREFIX == << "e", "m", "p", "_" >>

CapitalizeAll(words) == JoinSpace([i \in DOMAIN words |-> Capitalize(words[i])])

\* chatService.getEmployeeNameFromId
getEmployeeNameFromId(id) ==
    IF id = <<>> \/ ~StartsWith(id, EMP_PREFIX) THEN <<>>
    ELSE CapitalizeAll(SplitUnderscore(SubSeq(id, Len(EMP_PREFIX) + 1, Len(id)), <<>>))

Least(hits) == IF hits = {} THEN 0 ELSE CHOOSE i \in hits : \A j \in hits : i <= j

\* String.prototype.indexOf, 0 when absent (positions are 1-based here)
IndexOf(s, p) ==
    Least({i \in 1..(Len(s) + 1) :
               i + Len(p) - 1 <= Len(s) /\ SubSeq(s, i, i + Len(p) - 1) = p})

\* end of the longest run of characters of class cls starting at i (i - 1 if none)
RECURSIVE RunEnd(_, _, _)
RunEnd(s, i, cls) == IF i <= Len(s) /\ s[i] \in cls THEN RunEnd(s, i + 1, cls) ELSE i - 1

\* [A-Z][a-z]+ at i: position of its last character, 0 when it does not match
WordAt(s, i) ==
    IF i <= Len(s) /\ s[i] \in Upper /\ RunEnd(s, i + 1, Lower) >= i + 1
    THEN RunEnd(s, i + 1, Lower) ELSE 0

\* a \b after position e, whose character is a word character
BoundaryAfter(s, e) == e = Len(s) \/ s[e + 1] \notin WordChar

\* the match given its first word's end e1 and its optional second word's end e2
NameEnd(s, e1, e2, bounded) ==
    IF e1 = 0 THEN 0
    ELSE IF e2 > 0 /\ (~bounded \/ BoundaryAfter(s, e2)) THEN e2
    ELSE IF ~bounded \/ BoundaryAfter(s, e1) THEN e1
    ELSE 0

\* the second word after the first word's end e1 and the whitespace up to w
SecondWord(s, e1, w) == IF e1 > 0 /\ w > e1 THEN WordAt(s, w + 1) ELSE 0

NameFrom(s, e1, bounded) ==
    NameEnd(s, e1, SecondWord(s, e1, RunEnd(s, e1 + 1, Whitespace)), bounded)

\* ([A-Z][a-z]+(?:\s+[A-Z][a-z]+)?) at i, followed by \b when bounded:
\* position of the last matched character, 0 when there is no match
NameAt(s, i, bounded) == NameFrom(s, WordAt(s, i), bounded)

NotHRName(name) == name # HR_USER_NAME /\ ~Includes(name, HR_MARKER)

GREETINGS == << <<"h", "e", "l", "l", "o">>, <<"h", "i">>, <<"h", "e", "y">>,
                <<"d", "e", "a", "r">> >>

RECURSIVE GreetingName(_, _)

\* the text after the greeting found at index, and the name match ending at e
GreetingMatch(lastMessage, g, index, afterGreeting, e) ==
    IF index # 0 /\ e > 0 /\ NotHRName(SubSeq(afterGreeting, 1, e))
    THEN Trim(SubSeq(afterGreeting, 1, e))
    ELSE GreetingName(lastMessage, g + 1)

GreetingAfter(lastMessage, g, index, afterGreeting) ==
    GreetingMatch(lastMessage, g, index, afterGreeting, NameAt(afterGreeting, 1, FALSE))

GreetingAt(lastMessage, g, index) ==
    GreetingAfter(lastMessage, g, index,
                  Trim(SubSeq(lastMessage, index + Len(GREETINGS[g]), Len(lastMessage))))

\* the `for (const greeting of greetings)` loop from greeting g on
GreetingName(lastMessage, g) ==
    IF g > Len(GREETINGS) THEN <<>>
    ELSE GreetingAt(lastMessage, g, IndexOf(ToLowerCase(lastMessage), GREETINGS[g]))

RECURSIVE AnyName(_, _)

\* the match at i ending at e (0: none)
AnyNameMatch(lastMessage, i, e) ==
    IF e = 0 THEN AnyName(lastMessage, i + 1)
    ELSE IF NotHRName(SubSeq(lastMessage, i, e)) THEN Trim(SubSeq(lastMessage, i, e))
    ELSE AnyName(lastMessage, e + 1)

\* lastMessage.match(/\b(...)\b/g), then the first match that is not the HR name
AnyName(lastMessage, i) ==
    IF i > Len(lastMessage) THEN <<>>
    ELSE AnyNameMatch(lastMessage, i,
                      IF i = 1 \/ lastMessage[i - 1] \notin WordChar
                      THEN NameAt(lastMessage, i, TRUE) ELSE 0)

\* employeeNames = namesArray.filter(...), as the positions kept
NotHRPositions(namesArray) ==
    {i \in DOMAIN namesArray :
        /\ ~Falsy(namesArray[i])
        /\ IsStr(namesArray[i])
        /\ NotHRName(namesArray[i].v)}

RosterNameOf(namesArray, first) ==
    IF first # 0 THEN Trim(namesArray[first].v)
    ELSE IF Len(namesArray) >= 2 /\ ~Falsy(namesArray[2]) /\ IsStr(namesArray[2])
         THEN Trim(namesArray[2].v)
    ELSE <<>>

RosterNameIn(namesArray) == RosterNameOf(namesArray, Least(NotHRPositions(namesArray)))

\* the roster step of employeeList: the name taken from participantNames
Dash_rosterName(pn) == IF Falsy(pn) THEN <<>> ELSE RosterNameIn(Dash_namesArray(pn))

\* final fallback: `Conversation ${conv.id.substring(0, 8)}` or 'Conversation'
NameOrPlaceholder(name, c) ==
    IF name = <<>> \/ Trim(name) = <<>>
    THEN IF c.id # <<>>
         THEN Trim(CONVERSATION \o << " " >> \o Substring0(c.id, 8))
         ELSE Trim(CONVERSATION)
    ELSE Trim(name)

\* fallback 2, second half: any capitalized name of the last message
NameOrAnyName(name, c) ==
    NameOrPlaceholder(IF name = <<>> THEN AnyName(c.lastMessage, 1) ELSE name, c)

\* fallback 2, first half: the name after a greeting in the last message
NameOrGreeting(name, c) ==
    IF name = <<>> /\ c.lastMessage # <<>>
    THEN NameOrAnyName(GreetingName(c.lastMessage, 1), c)
    ELSE NameOrPlaceholder(name, c)

\* fallback 1: the name encoded in the conversation id
NameOrId(name, c) ==
    NameOrGreeting(IF name = <<>> THEN getEmployeeNameFromId(c.id) ELSE name, c)

\* the name of one entry of useChat.employeeList
Dash_employeeName(c) == NameOrId(Dash_rosterName(c.participantNames), c)

\* one entry of useChat.employeeList
Dash_employee(c) ==
    [ id |-> c.id,
      name |-> Dash_employeeName(c),
      lastMessage |-> c.lastMessage,
      lastMessageSenderId |->
          IF Falsy(c.lastMessageSenderId) THEN JNull ELSE c.lastMessageSenderId,
      participantNames |->
          IF Falsy(c.participantNames) THEN Arr(<<>>) ELSE c.participantNames ]

-----------------------------------------------------------------------------
(* The last-message prefix of the conversation lists *)

ELLIPSIS == << "..." >>

\* helpers.truncateString: cut to maxLength characters, the ellipsis appended
\* only when something was cut
truncateString(str, maxLength) ==
    IF Len(str) > maxLength THEN SubSeq(str, 1, maxLength) \o ELLIPSIS ELSE str

PREFIX_LENGTH == 15

YOU_PREFIX    == << "Y", "o", "u", ":", " " >>
COLON_SPACE   == << ":", " " >>

\* variant: no prefix at all
Prefix_none(senderId, namesArray) == <<>>

Prefix_namesOfElement(parsed, pn) ==
    IF parsed.ok /\ IsArr(parsed.val) THEN parsed.val.v ELSE pn.v

Prefix_namesOfString(parsed) ==
    IF parsed.ok /\ IsArr(parsed.val) THEN parsed.val.v ELSE <<>>

\* the namesArray of both getLastMessagePrefix functions
Prefix_namesArray(pn) ==
    IF IsArr(pn) /\ Len(pn.v) > 0 THEN
        IF IsStr(pn.v[1]) /\ StartsWith(pn.v[1].v, <<"[">>)
        THEN Prefix_namesOfElement(JSONparse(pn.v[1].v), pn)
        ELSE pn.v
    ELSE IF IsStr(pn) /\ StartsWith(pn.v, <<"[">>) THEN Prefix_namesOfString(JSONparse(pn.v))
    ELSE <<>>

\* dashboard EmployeeList: the prefix given the sender and the names
Dash_prefixOf(senderId, namesArray) ==
    IF Len(namesArray) >= 2
    THEN IF StrictEq(senderId, namesArray[1]) THEN YOU_PREFIX
         ELSE IF StrictEq(senderId, namesArray[2])
              THEN truncateString(namesArray[2].v, PREFIX_LENGTH) \o COLON_SPACE
         ELSE <<>>
    ELSE <<>>

\* dashboard EmployeeList.getLastMessagePrefix of a directory entry
Dash_getLastMessagePrefix(employee) ==
    IF Falsy(employee.lastMessageSenderId) \/ Falsy(employee.participantNames)
       \/ (IsArr(employee.participantNames) /\ Len(employee.participantNames.v) = 0)
    THEN <<>>
    ELSE Dash_prefixOf(employee.lastMessageSenderId, Prefix_namesArray(employee.participantNames))

\* mobile ConversationItem: the prefix given the sender and the names
Mobile_prefixOf(senderId, namesArray) ==
    IF Len(namesArray) >= 2
    THEN IF StrictEq(senderId, namesArray[2]) THEN YOU_PREFIX
         ELSE IF StrictEq(senderId, namesArray[1])
              THEN truncateString(namesArray[1].v, PREFIX_LENGTH) \o COLON_SPACE
         ELSE <<>>
    ELSE <<>>

\* mobile ConversationItem.getLastMessagePrefix of a conversation
Mobile_getLastMessagePrefix(c) ==
    IF Falsy(c.lastMessageSenderId) \/ Falsy(c.participantNames)
    THEN <<>>
    ELSE Mobile_prefixOf(c.lastMessageSenderId, Prefix_namesArray(c.participantNames))

-----------------------------------------------------------------------------
(* Inputs of the resolution specification *)

\* display names: plain, carrying the role marker, padded with whitespace,
\* looking like a JSON array, holding a quote, and the HR id
N_Bo   == << "B", "o" >>
N_Al   == << "A", "l" >>
N_AlHR == << "A", "l", " " >> \o HR_MARKER
N_Pad  == << " ", "B", "o" >>
N_Json == << "[", "\"", "B", "o", "\"", "]" >>
N_Quot == << "Q", "\"" >>
N_Long == << "B", "a", "r", "t", "h", "o", "l", "o", "m", "e", "w", " ", "R", "e", "e", "d" >>
Names  == { N_Bo, N_Al, N_AlHR, N_Pad, N_Json, N_Quot, N_Long, HR_USER_NAME, HR_USER_ID }

Comma      == << "," >>
CommaSpace == << ",", " " >>

\* the encodings of the roster [a, b] seen in the store
EncArray(a, b)       == Arr(<< Str(a), Str(b) >>)
EncJson(a, b, sep)   == Str(JSONpair(a, b, sep))
EncNested(a, b, sep) == Arr(<< Str(JSONpair(a, b, sep)) >>)
Encodings(a, b) ==
    { EncArray(a, b), EncJson(a, b, Comma), EncJson(a, b, CommaSpace),
      EncNested(a, b, Comma), EncNested(a, b, CommaSpace) }

\* JSON text cut before its closing bracket
Truncated(a, b) == SubSeq(JSONpair(a, b, CommaSpace), 1, Len(JSONpair(a, b, CommaSpace)) - 1)

\* other shapes of participantNames: absent, not an array text, malformed,
\* elements that are not strings, missing or extra elements
OddRosters ==
    { Undefined,
      JNull,
      Str(<<>>),
      Str(N_Bo),
      Num(<< "5" >>),
      Arr(<<>>),
      Arr(<< Str(N_Al) >>),
      Arr(<< Str(HR_USER_NAME) >>),
      Arr(<< Num(<< "5" >>), Str(N_Al) >>),
      Arr(<< JNull, Str(N_Al) >>),
      Arr(<< Str(HR_USER_NAME), Str(N_Al), Str(N_Bo) >>),
      Str(Truncated(N_Bo, N_Al)),
      Str(Truncated(HR_USER_NAME, N_Al)),
      Arr(<< Str(Truncated(N_Bo, N_Al)) >>),
      Arr(<< Str(Truncated(HR_USER_NAME, N_Al)), Str(N_Al) >>),
      Str(<< "[", "]" >>),
      Arr(<< Str(<< "[", "]" >>) >>),
      Str(<< "[", "5", ",", "\"", "A", "l", "\"", "]" >>),
      Arr(<< Str(<< "[", "5", "]" >>) >>),
      Str(<< "[", "t", "r", "u", "e", "]" >>),
      Str(<< "[", "n", "u", "l", "l", ",", "\"", "A", "l", "\"", "]" >>),
      Str(<< "[", "[", "\"", "B", "o", "\"", "]", ",", "\"", "A", "l", "\"", "]" >>),
      Arr(<< Str(JSONpair(HR_USER_NAME, N_Al, CommaSpace)), Str(N_Bo) >>),
      Arr(<< Str(<< "B", "o", "\"", ",", " ", "\"", "A", "l" >>), Str(N_Al) >>) }

Rosters ==
    UNION { Encodings(ab[1], ab[2]) : ab \in Names \X Names } \cup OddRosters

ID_EmpAl == EMP_PREFIX \o << "a", "l", "_", "b" >>
ID_Other == << "x", "7", "k", "2", "p", "9", "q", "4", "z", "1" >>
MSG_HiBo == << "H", "i", " ", "B", "o", ",", " ", "o", "k" >>
MSG_Plain == << "s", "e", "e", " ", "y", "o", "u", " ", "A", "l" >>

\* (id, lastMessage) of the records: named after the employee, or not, with
\* and without a last message that mentions a name
Envelopes ==
    { << ID_EmpAl, <<>> >>, << ID_Other, MSG_HiBo >>, << ID_Other, MSG_Plain >>,
      << ID_Other, <<>> >>, << <<>>, <<>> >> }

Conversations ==
    { [ id |-> e[1], participantNames |-> pn, lastMessage |-> e[2],
        lastMessageSenderId |-> Undefined, loaded |-> TRUE ]
      : pn \in Rosters, e \in Envelopes }

SenderIds == Names \cup { << "u", "n", "k" >>, << "B", "o", " " >> }

NoResult == [op |-> "none", val |-> Undefined]

JBool(b) == IF b THEN JTrue ELSE JFalse

\* currentEmployeeName after the hook loaded conversation c
\* (setCurrentEmployeeName(empName) when empName is truthy)
Mobile_currentEmployeeName(c) ==
    LET empName == Mobile_getEmployeeNameFromParticipantNames(c)
    IN  IF c.loaded /\ ~Falsy(empName) THEN empName ELSE JNull

-----------------------------------------------------------------------------
(* Resolution specification: a conversation record is loaded, a message is  *)
(* received, and the resolvers and classifiers of both apps are applied.    *)

RosterIdle == conv = NoConversation /\ sender = <<>> /\ out = NoResult

LoadConversation ==
    /\ ~conv.loaded
    /\ \E c \in Conversations : conv' = c
    /\ UNCHANGED << sender, out, msgVars, listVars, hookVars, extVars >>

ReceiveMessage ==
    /\ conv.loaded /\ sender = <<>> /\ out = NoResult
    /\ \E s \in SenderIds :
           /\ sender' = s
           /\ conv' = [conv EXCEPT !.lastMessageSenderId = Str(s)]
    /\ UNCHANGED << out, msgVars, listVars, hookVars, extVars >>

Apply(op, val) ==
    /\ conv.loaded /\ out = NoResult
    /\ out' = [op |-> op, val |-> val]
    /\ UNCHANGED << conv, sender, msgVars, listVars, hookVars, extVars >>

Run_Mobile_getHRName       == Apply("Mobile_getHRName", Mobile_getHRNameFromParticipantNames(conv))
Run_Mobile_getEmployeeName == Apply("Mobile_getEmployeeName", Mobile_getEmployeeNameFromParticipantNames(conv))
Run_getHRNameFromConversation == Apply("getHRNameFromConversation", getHRNameFromConversation(conv))
Run_getEmployeeNameFromConversation ==
    Apply("getEmployeeNameFromConversation", getEmployeeNameFromConversation(conv))
Run_Dash_getHRName == Apply("Dash_getHRName", Dash_getHRNameFromParticipantNames(conv.participantNames))
Run_processedConversations == Apply("Mobile_title", Mobile_title(conv))
Run_employeeList == Apply("Dash_employee", Str(Dash_employee(conv).name))
Run_MessageBubble ==
    sender # <<>> /\ Apply("MessageBubble", JBool(MessageBubble_isFromHR(sender, conv.participantNames)))
Run_Dash_isHRMessage ==
    sender # <<>> /\ Apply("Dash_isHRMessage", JBool(Dash_isHRMessage(sender, conv.participantNames)))
Run_Mobile_isHRMessage ==
    sender # <<>> /\ Apply("Mobile_isHRMessage", JBool(Mobile_isHRMessage(sender, conv)))
Run_Mobile_getMessageType ==
    sender # <<>> /\ Apply("Mobile_getMessageType",
                            Str(<< Mobile_getMessageType(sender, Mobile_currentEmployeeName(conv), conv) >>))

\* the lists render the prefix only next to a last message
Run_Dash_getLastMessagePrefix ==
    /\ conv.lastMessage # <<>>
    /\ Apply("Dash_prefix", Str(Dash_getLastMessagePrefix(Dash_employee(conv))))
Run_Mobile_getLastMessagePrefix ==
    /\ conv.lastMessage # <<>>
    /\ Apply("Mobile_prefix", Str(Mobile_getLastMessagePrefix(conv)))

RosterNext ==
    \/ LoadConversation
    \/ ReceiveMessage
    \/ Run_Mobile_getHRName
    \/ Run_Mobile_getEmployeeName
    \/ Run_getHRNameFromConversation
    \/ Run_getEmployeeNameFromConversation
    \/ Run_Dash_getHRName
    \/ Run_processedConversations
    \/ Run_employeeList
    \/ Run_MessageBubble
    \/ Run_Dash_isHRMessage
    \/ Run_Mobile_isHRMessage
    \/ Run_Mobile_getMessageType
    \/ Run_Dash_getLastMessagePrefix
    \/ Run_Mobile_getLastMessagePrefix

-----------------------------------------------------------------------------
(* Message documents and the two apps' message pipelines *)

\* bounds of the message model
MaxTime  == 2
MaxClock == 2

\* document ids in localeCompare order
MsgIdSeq == << "m1", "m2", "m3" >>
MsgIds   == { MsgIdSeq[i] : i \in DOMAIN MsgIdSeq }
IdRank(id) == CHOOSE i \in DOMAIN MsgIdSeq : MsgIdSeq[i] = id

\* store[id]: -1 no such document; 0 the timestamp is still the unresolved
\* serverTimestamp() placeholder (data().timestamp is null); t > 0 resolved
Absent  == -1
Pending == 0
Msg(id, ts) == [id |-> id, ts |-> ts]

\* `timestamp?.toMillis ? timestamp.toMillis() : 0`
TimeOf(m) == IF m.ts = Pending THEN 0 ELSE m.ts

\* Array.prototype.filter
RECURSIVE SelectMsgs(_, _)
SelectMsgs(s, keep) ==
    IF s = <<>> THEN <<>>
    ELSE (IF Head(s) \in keep THEN << Head(s) >> ELSE <<>>) \o SelectMsgs(Tail(s), keep)

\* the stable Array.prototype.sort((a, b) => timeA - timeB)
RECURSIVE InsertByTime(_, _)
InsertByTime(m, sorted) ==
    IF sorted = <<>> THEN << m >>
    ELSE IF TimeOf(m) < TimeOf(Head(sorted)) THEN << m >> \o sorted
    ELSE << Head(sorted) >> \o InsertByTime(m, Tail(sorted))

RECURSIVE SortByTime(_, _)
SortByTime(s, acc) ==
    IF s = <<>> THEN acc ELSE SortByTime(Tail(s), InsertByTime(Head(s), acc))

\* the sort with the document id as tie-break
MsgBefore(a, b) ==
    IF TimeOf(a) = TimeOf(b) THEN IdRank(a.id) < IdRank(b.id) ELSE TimeOf(a) < TimeOf(b)

RECURSIVE InsertByTimeId(_, _)
InsertByTimeId(m, sorted) ==
    IF sorted = <<>> THEN << m >>
    ELSE IF MsgBefore(m, Head(sorted)) THEN << m >> \o sorted
    ELSE << Head(sorted) >> \o InsertByTimeId(m, Tail(sorted))

RECURSIVE SortByTimeId(_, _)
SortByTimeId(s, acc) ==
    IF s = <<>> THEN acc ELSE SortByTimeId(Tail(s), InsertByTimeId(Head(s), acc))

\* the margin allowed for clock differences (one hour, in model time units)
FutureMargin == 1

\* mobile subscribeMessages: the filter of its callback
Mobile_validMessage(m, now) ==
    /\ m.ts # Pending
    /\ m.ts > 0
    /\ ~(m.ts > now + FutureMargin)

\* mobile subscribeMessages: the Map keyed by id, in insertion order, an entry
\* replaced in place by a later delivery with a greater timestamp
RECURSIVE Mobile_messageMap(_, _)
Mobile_messageMap(s, map) ==
    IF s = <<>> THEN map
    ELSE LET message == Head(s)
             at == { i \in DOMAIN map : map[i].id = message.id }
         IN  IF at = {} THEN Mobile_messageMap(Tail(s), Append(map, message))
             ELSE LET i == CHOOSE j \in at : TRUE
                  IN  IF TimeOf(message) > TimeOf(map[i])
                      THEN Mobile_messageMap(Tail(s), [map EXCEPT ![i] = message])
                      ELSE Mobile_messageMap(Tail(s), map)

\* mobile subscribeMessages: what its callback hands to setMessages
Mobile_subscribeMessages(docs, now) ==
    LET validMessages  == SelectMsgs(docs, { m \in Range(docs) : Mobile_validMessage(m, now) })
        uniqueMessages == Mobile_messageMap(validMessages, <<>>)
    IN  SortByTime(uniqueMessages, <<>>)

\* mobile getMessages: the one-time load behind fetchMessages / refreshMessages
Mobile_getMessages(docs) == SortByTime(docs, <<>>)

\* dashboard subscribeMessages: what its callback hands to setMessages
Dash_subscribeMessages(docs) == SortByTimeId(docs, <<>>)

\* dashboard useChat.isValidTimestamp on a message's timestamp
isValidTimestamp(m) == m.ts # Pending /\ m.ts > 0

\* dashboard useChat.sortedMessages: the list the chat window renders
sortedMessages(messages) ==
    LET validMessages == SelectMsgs(messages, { m \in Range(messages) : isValidTimestamp(m) })
    IN  SortByTimeId(validMessages, <<>>)

-----------------------------------------------------------------------------
(* Message specification: documents are written to the messages             *)
(* subcollection, their timestamps resolve, and the listeners and the       *)
(* one-time load of the apps receive the documents.                         *)

Timestamps == 1 .. MaxTime

Present(st) == { id \in MsgIds : st[id] # Absent }

\* the documents of the store as a list in document-id order (getDocs on the
\* subcollection reference, no orderBy)
RECURSIVE DocsFrom(_, _)
DocsFrom(st, i) ==
    IF i > Len(MsgIdSeq) THEN <<>>
    ELSE (IF st[MsgIdSeq[i]] # Absent THEN << Msg(MsgIdSeq[i], st[MsgIdSeq[i]]) >> ELSE <<>>)
         \o DocsFrom(st, i + 1)

GetDocs(st) == DocsFrom(st, 1)

\* the documents as the orderBy('timestamp', 'asc') listener query delivers
\* them: by timestamp, then by document id, local pending writes last
QuerySnapshot(st) ==
    LET docs == GetDocs(st)
    IN  SortByTimeId(SelectMsgs(docs, { m \in Range(docs) : m.ts # Pending }), <<>>)
        \o SelectMsgs(docs, { m \in Range(docs) : m.ts = Pending })

NoStore == [id \in MsgIds |-> Absent]

MsgIdle ==
    /\ store = NoStore /\ clock = 0 /\ snapshot = <<>>
    /\ mobMessages = <<>> /\ dashMessages = <<>>

\* a message document is created: by this client with serverTimestamp()
\* (placeholder until the server answers) or by the other app (resolved)
Store_addMessage ==
    \E id \in MsgIds, ts \in {Pending} \cup Timestamps :
        /\ store[id] = Absent
        /\ store' = [store EXCEPT ![id] = ts]
        /\ UNCHANGED << clock, snapshot, listVars, rosterVars, hookVars, extVars >>

\* the server assigns the timestamp of a pending write
Store_resolveTimestamp ==
    \E id \in MsgIds, ts \in Timestamps :
        /\ store[id] = Pending
        /\ store' = [store EXCEPT ![id] = ts]
        /\ UNCHANGED << clock, snapshot, listVars, rosterVars, hookVars, extVars >>

\* Date.now() advances
Tick ==
    /\ clock < MaxClock
    /\ clock' = clock + 1
    /\ UNCHANGED << store, snapshot, listVars, rosterVars, hookVars, extVars >>

\* mobile useChat: the realtime listener's callback, setMessages(data)
Mobile_onSnapshot ==
    /\ mobMessages' = Mobile_subscribeMessages(QuerySnapshot(store), clock)
    /\ UNCHANGED << msgVars, dashMessages, rosterVars, hookVars, extVars >>

\* mobile subscribeToSubcollection: the listener's error handler, callback([])
Mobile_onListenerError ==
    /\ mobMessages' = Mobile_subscribeMessages(<<>>, clock)
    /\ UNCHANGED << msgVars, dashMessages, rosterVars, hookVars, extVars >>

\* mobile useChat.fetchMessages / refreshMessages: setMessages(await getMessages())
Mobile_fetchMessages ==
    /\ mobMessages' = Mobile_getMessages(GetDocs(store))
    /\ UNCHANGED << msgVars, dashMessages, rosterVars, hookVars, extVars >>

\* dashboard useChat: the realtime listener's callback, setMessages(data)
Dash_onSnapshot ==
    /\ dashMessages' = Dash_subscribeMessages(QuerySnapshot(store))
    /\ UNCHANGED << msgVars, mobMessages, rosterVars, hookVars, extVars >>

MsgNext ==
    \/ Store_addMessage
    \/ Store_resolveTimestamp
    \/ Tick
    \/ Mobile_onSnapshot
    \/ Mobile_onListenerError
    \/ Mobile_fetchMessages
    \/ Dash_onSnapshot

-----------------------------------------------------------------------------
(* Pipeline specification: the listeners' callbacks as functions of         *)
(* whatever document list they are handed.                                  *)

MaxDocs == 3

PipelineIds == { "m1", "m2" }

DocVersions == { Msg(id, ts) : id \in PipelineIds, ts \in {Pending} \cup Timestamps }

DocLists == UNION { [1 .. n -> DocVersions] : n \in 0 .. MaxDocs }

\* a document list arrives at freshly attached listeners
Pipeline_deliver ==
    /\ snapshot = <<>> /\ mobMessages = <<>> /\ dashMessages = <<>>
    /\ \E docs \in DocLists : snapshot' = docs
    /\ UNCHANGED << store, clock, listVars, rosterVars, hookVars, extVars >>

Pipeline_mobileCallback ==
    /\ snapshot # <<>> /\ mobMessages = <<>>
    /\ mobMessages' = Mobile_subscribeMessages(snapshot, clock)
    /\ UNCHANGED << msgVars, dashMessages, rosterVars, hookVars, extVars >>

Pipeline_dashCallback ==
    /\ snapshot # <<>> /\ dashMessages = <<>>
    /\ dashMessages' = Dash_subscribeMessages(snapshot)
    /\ UNCHANGED << msgVars, mobMessages, rosterVars, hookVars, extVars >>

Pipeline_tick ==
    /\ snapshot = <<>>
    /\ clock < MaxClock
    /\ clock' = clock + 1
    /\ UNCHANGED << store, snapshot, listVars, rosterVars, hookVars, extVars >>

PipelineNext ==
    \/ Pipeline_deliver
    \/ Pipeline_mobileCallback
    \/ Pipeline_dashCallback
    \/ Pipeline_tick

-----------------------------------------------------------------------------
(* useMultipleRealtime: several collection listeners behind one `loading`   *)

MaxSnapshots == 3

\* the keys of the listeners a caller may configure
ListenerKeys == { "feedback", "conversations", "users" }

\* useState({}), useState(true); data[k] = 0: combinedData has no entry for
\* k, n > 0: the entry is the n-th snapshot of k's listener
NoMulti == [ mounted |-> FALSE, listeners |-> {}, failed |-> {},
             data |-> [ k \in ListenerKeys |-> 0 ], loadedCount |-> 0, loading |-> TRUE ]

otherVars == << rosterVars, msgVars, listVars, dirVars, sendVars, idVars, selVars,
                employeeId, effects, conversation, dashSelected, dashSubs >>

\* the effect: without listeners setLoading(false); otherwise loadedCount = 0
\* and one subscribeToCollection per listener
useMultipleRealtime_mount ==
    /\ ~multi.mounted
    /\ \E listeners \in SUBSET ListenerKeys :
           multi' = [ NoMulti EXCEPT !.mounted = TRUE, !.listeners = listeners,
                                     !.loading = (listeners # {}) ]
    /\ UNCHANGED otherVars

\* loading after the callback that raised the count to loadedCount
LoadingAfter(loadedCount, listeners, loading) ==
    IF loadedCount = Cardinality(listeners) THEN FALSE ELSE loading

\* the callback of listener key: updateData(key, data); loadedCount++;
\* if (loadedCount === listeners.length) setLoading(false)
useMultipleRealtime_snapshot ==
    /\ multi.mounted
    /\ \E key \in multi.listeners \ multi.failed :
           /\ multi.data[key] < MaxSnapshots
           /\ multi' = [ multi EXCEPT !.data[key] = @ + 1,
                                      !.loadedCount = @ + 1,
                                      !.loading = LoadingAfter(multi.loadedCount + 1,
                                                               multi.listeners, @) ]
    /\ UNCHANGED otherVars

\* the onSnapshot error callback of subscribeToCollection: logged, the
\* listener delivers nothing from then on
useMultipleRealtime_listenerError ==
    /\ multi.mounted
    /\ \E key \in multi.listeners \ multi.failed : multi' = [ multi EXCEPT !.failed = @ \cup {key} ]
    /\ UNCHANGED otherVars

\* the clean-up: every unsubscribe is called
useMultipleRealtime_unmount ==
    /\ multi.mounted
    /\ multi' = NoMulti
    /\ UNCHANGED otherVars

MultiNext ==
    \/ useMultipleRealtime_mount
    \/ useMultipleRealtime_snapshot
    \/ useMultipleRealtime_listenerError
    \/ useMultipleRealtime_unmount

-----------------------------------------------------------------------------
(* Switch specification: the realtime effects of the two useChat hooks      *)
(* while the open conversation changes.  A render, the clean-up of the      *)
(* previous effect run and the body of the new run are one step; what the   *)
(* effect leaves to promises and listeners are steps of their own.          *)

MaxEffects == 3

ConvIds == { "A", "B", "C" }

\* the conversation documents: two with the roster getOrCreateConversation
\* writes, one without a participantNames field
ConvRecord(c) ==
    [ id |-> << c >>, lastMessage |-> <<>>, lastMessageSenderId |-> Undefined, loaded |-> TRUE,
      participantNames |-> IF c = "A" THEN Arr(<< Str(HR_USER_NAME), Str(N_Al) >>)
                           ELSE IF c = "B" THEN Arr(<< Str(HR_USER_NAME), Str(N_Bo) >>)
                           ELSE Undefined ]

\* getEmployeeNameFromParticipantNames(conv) of the document of c
ConvEmployeeName(c) == Mobile_getEmployeeNameFromParticipantNames(ConvRecord(c))

\* AsyncStorage with neither EMPLOYEE_ID nor EMPLOYEE_NAME
NoStorage == [ id |-> "none", name |-> JNull ]

\* AsyncStorage.setItem(EMPLOYEE_NAME, empName), setItem(EMPLOYEE_ID, id)
Stored(c) == [ id |-> c, name |-> ConvEmployeeName(c) ]

\* no sendMessage call yet
NoSend == [ screen |-> "none", to |-> "none", senderId |-> JNull ]

\* the message documents of the two conversations
ConvDocs(c) == IF c = "A" THEN << Msg("m1", 1) >> ELSE << Msg("m2", 1) >>

\* a run of the mobile effect: `fetching` while getDocumentByIdFromFirestore is
\* pending, `listening` once .then assigned `unsubscribe`, `closed` once the
\* clean-up called it, `failed` when the fetch rejected
EffectRun(c) == [conv |-> c, phase |-> "fetching"]

\* the clean-up of the latest run: `if (unsubscribe) unsubscribe()`
Mobile_cleanup(runs) ==
    IF runs # <<>> /\ runs[Len(runs)].phase = "listening"
    THEN [runs EXCEPT ![Len(runs)].phase = "closed"]
    ELSE runs

HookIdle ==
    /\ employeeId = "none" /\ effects = <<>> /\ conversation = "none"
    /\ dashSelected = "none" /\ dashSubs = {}
    /\ storage = NoStorage /\ mobEmployeeName = JNull /\ lastSend = NoSend
    /\ dashError = "null"
    /\ multi = NoMulti

\* the chat screen mounts with, or navigates to, conversation c
Mobile_openConversation ==
    \E c \in ConvIds :
        /\ employeeId \in ConvIds \cup {"none"}
        /\ employeeId # c
        /\ Len(effects) < MaxEffects
        /\ employeeId' = c
        /\ effects' = Append(Mobile_cleanup(effects), EffectRun(c))
        /\ UNCHANGED << conversation, dashSelected, dashSubs, listVars, msgVars, rosterVars, extVars >>

\* the chat screen unmounts
Mobile_unmount ==
    /\ employeeId \in ConvIds
    /\ employeeId' = "unmounted"
    /\ effects' = Mobile_cleanup(effects)
    /\ UNCHANGED << conversation, dashSelected, dashSubs, listVars, msgVars, rosterVars, extVars >>

\* what an earlier session of the app left in AsyncStorage
Storage_previousSession ==
    /\ employeeId = "none" /\ storage = NoStorage
    /\ \E c \in ConvIds : ~Falsy(ConvEmployeeName(c)) /\ storage' = Stored(c)
    /\ UNCHANGED << employeeId, effects, conversation, dashSelected, dashSubs, mobEmployeeName,
                    lastSend, selVars, multi, listVars, msgVars, rosterVars, dirVars, sendVars >>

\* .then of the conversation fetch of run i: setConversation(conv) when the
\* record exists; with an employee name in it setCurrentEmployeeName(empName)
\* and the two AsyncStorage.setItem; then unsubscribe = subscribeMessages(...)
Mobile_fetchResolved ==
    \E i \in DOMAIN effects, found \in BOOLEAN :
        /\ effects[i].phase = "fetching"
        /\ effects' = [effects EXCEPT ![i].phase = "listening"]
        /\ conversation' = IF found /\ employeeId # "unmounted"
                           THEN effects[i].conv ELSE conversation
        /\ mobEmployeeName' = IF found /\ employeeId # "unmounted"
                                 /\ ~Falsy(ConvEmployeeName(effects[i].conv))
                              THEN ConvEmployeeName(effects[i].conv) ELSE mobEmployeeName
        /\ storage' = IF found /\ ~Falsy(ConvEmployeeName(effects[i].conv))
                      THEN Stored(effects[i].conv) ELSE storage
        /\ UNCHANGED << employeeId, dashSelected, dashSubs, lastSend, selVars, multi,
                        listVars, msgVars, rosterVars, dirVars, sendVars >>

\* getCurrentEmployeeInfo finds both items in AsyncStorage
StoredInfo == storage.id # "none" /\ ~Falsy(storage.name)

\* mobile useChat.sendChatMessage(messageText): getCurrentEmployeeInfo(employeeId),
\* which answers from AsyncStorage when both items are there and from the
\* conversation document of employeeId otherwise, then
\* sendMessage(empId, empName, messageText); without an id or a name it throws
useChat_sendChatMessage ==
    /\ employeeId \in ConvIds
    /\ IF StoredInfo
       THEN /\ mobEmployeeName' = storage.name
            /\ lastSend' = [ screen |-> employeeId, to |-> storage.id, senderId |-> storage.name ]
            /\ UNCHANGED << storage, conversation >>
       ELSE \E found \in BOOLEAN :
            IF found /\ ~Falsy(ConvEmployeeName(employeeId))
            THEN /\ storage' = Stored(employeeId)
                 /\ mobEmployeeName' = ConvEmployeeName(employeeId)
                 /\ conversation' = employeeId
                 /\ lastSend' = [ screen |-> employeeId, to |-> employeeId,
                                  senderId |-> ConvEmployeeName(employeeId) ]
            ELSE UNCHANGED << storage, mobEmployeeName, conversation, lastSend >>
    /\ UNCHANGED << employeeId, effects, dashSelected, dashSubs, selVars, multi,
                    listVars, msgVars, rosterVars, dirVars, sendVars >>

\* .catch of the conversation fetch of run i
Mobile_fetchRejected ==
    \E i \in DOMAIN effects :
        /\ effects[i].phase = "fetching"
        /\ effects' = [effects EXCEPT ![i].phase = "failed"]
        /\ UNCHANGED << employeeId, conversation, dashSelected, dashSubs, listVars,
                        msgVars, rosterVars, extVars >>

\* the listener of run i delivers a snapshot: setMessages(data)
Mobile_listenerSnapshot ==
    \E i \in DOMAIN effects :
        /\ effects[i].phase = "listening"
        /\ employeeId # "unmounted"
        /\ mobMessages' = Mobile_subscribeMessages(ConvDocs(effects[i].conv), clock)
        /\ UNCHANGED << dashMessages, hookVars, msgVars, rosterVars, extVars >>

\* the arguments selectEmployee is called with: the directory entries
\* { id, name }, an entry without id, a name string, and what it refuses
Employee(t, id, name) == [ t |-> t, id |-> id, name |-> name ]

DirectoryName(c) == IF c = "A" THEN N_Al ELSE IF c = "B" THEN N_Bo ELSE N_AlHR

SelectInputs ==
    { Employee("object", c, DirectoryName(c)) : c \in ConvIds }
        \cup { Employee("object", "", N_Bo), Employee("string", "", << " " >> \o N_Al),
               Employee("string", "", << " ", " " >>), Employee("object", "A", <<>>),
               Employee("null", "", <<>>) }

\* generateEmployeeId(name): the id of the conversation kept for name
GeneratedId(name) == IF name = N_Al THEN "A" ELSE IF name = N_Bo THEN "B" ELSE "C"

\* selectEmployee: employeeName, empty where the call ends at "Invalid employee"
Select_employeeName(employee) ==
    IF employee.t = "string" THEN Trim(employee.name)
    ELSE IF employee.t = "object" THEN employee.name
    ELSE <<>>

\* selectEmployee: employeeId
Select_employeeId(employee) ==
    IF employee.t = "object" /\ employee.id # "" THEN employee.id
    ELSE GeneratedId(Select_employeeName(employee))

\* variant: only an invalid employee is refused
Select_invalidOnly(employee, conversationsLoading, selectedId) ==
    Select_employeeName(employee) = <<>>

\* selectEmployee: the three returns before any state is set
Select_returnsEarly(employee, conversationsLoading, selectedId) ==
    \/ Select_employeeName(employee) = <<>>
    \/ conversationsLoading = "loading"
    \/ selectedId = Select_employeeId(employee)

\* selectEmployee: employeeToStore
Select_employeeToStore(employee) ==
    IF employee.t = "object" /\ employee.name # <<>> /\ employee.id # ""
    THEN employee
    ELSE [ id |-> Select_employeeId(employee), name |-> Select_employeeName(employee) ]

\* dashboard selectEmployee(employee) and the messages effect it re-runs:
\* setMessages([]), setSelectedEmployee, setError(null),
\* setMessagesLoading(IDLE); unsubscribe() of the previous run and
\* subscribeMessages(currentEmployeeId)
Dash_selectEmployee ==
    \E employee \in SelectInputs :
        /\ status["dashList"].listener # "none"
        /\ ~Select_returnsEarly(employee, status["dashList"].loadingState, dashSelected)
        /\ dashSelected' = Select_employeeToStore(employee).id
        /\ dashMessages' = <<>>
        /\ dashError' = "null"
        /\ status' = [status EXCEPT !["dashChat"].loadingState = "idle"]
        /\ dashSubs' = { Select_employeeToStore(employee).id }
        /\ UNCHANGED << employeeId, effects, conversation, mobMessages, msgVars, rosterVars,
                        idVars, multi, convStore, mobConversations, dashConversations, sendVars >>

\* dashboard sendHRMessage whose sendMessageFromHR rejects: the catch block
Dash_sendHRMessageRejected ==
    /\ dashSelected # "none"
    /\ dashError' = "Failed to send message"
    /\ UNCHANGED << employeeId, effects, conversation, dashSelected, dashSubs, listVars,
                    msgVars, rosterVars, idVars, multi, dirVars, sendVars >>

\* dashboard clearSelection(): setSelectedEmployee(null), setMessages([]),
\* setError(null); and the messages effect it re-runs: unsubscribe(),
\* setMessages([]), setMessagesLoading(IDLE)
Dash_clearSelection ==
    /\ dashSelected # "none"
    /\ dashSelected' = "none"
    /\ dashMessages' = <<>>
    /\ dashError' = "null"
    /\ status' = [status EXCEPT !["dashChat"].loadingState = "idle"]
    /\ dashSubs' = {}
    /\ UNCHANGED << employeeId, effects, conversation, mobMessages, msgVars, rosterVars,
                    idVars, multi, convStore, mobConversations, dashConversations, sendVars >>

\* an attached dashboard listener delivers a snapshot: setMessages(data),
\* setMessagesLoading(SUCCESS)
Dash_listenerSnapshot ==
    \E c \in dashSubs :
        /\ dashMessages' = Dash_subscribeMessages(ConvDocs(c))
        /\ status' = [status EXCEPT !["dashChat"].loadingState = "success"]
        /\ UNCHANGED << mobMessages, hookVars, msgVars, rosterVars,
                        convStore, mobConversations, dashConversations, sendVars >>

-----------------------------------------------------------------------------
(* Conversation lists: the conversations collection, the list each app     *)
(* keeps of it, and the loading / error state of the subscriptions.        *)

\* conversation ids in document-id order
ListIdSeq == << "c1", "c2", "c3" >>
ListIds   == { ListIdSeq[i] : i \in DOMAIN ListIdSeq }

\* convStore[id]: Absent no such document; NoField a document without a
\* lastMessageTimestamp; Pending the unresolved serverTimestamp() placeholder
\* (read as null); t > 0 a resolved timestamp
NoField == -2

\* the other fields of the stored conversations: a roster whose only
\* employee name is blank, no roster at all, and a roster kept as JSON text
ListRecord(id) ==
    IF id = "c1" THEN
        [ id |-> << "c", "1" >>, lastMessage |-> MSG_Plain, lastMessageSenderId |-> Undefined,
          participantNames |-> Arr(<< Str(HR_USER_NAME), Str(<< " " >>) >>) ]
    ELSE IF id = "c2" THEN
        [ id |-> << "c", "2" >>, lastMessage |-> <<>>, lastMessageSenderId |-> Undefined,
          participantNames |-> Undefined ]
    ELSE
        [ id |-> << "c", "3" >>, lastMessage |-> MSG_HiBo, lastMessageSenderId |-> Str(N_Al),
          participantNames |-> EncJson(HR_USER_NAME, N_Al, CommaSpace) ]

\* { id: doc.id, ...doc.data() }
ConvEntry(id, ts) == [ doc |-> id, lastMessageTimestamp |-> ts, data |-> ListRecord(id) ]

\* `lastMessageTimestamp?.toMillis ? lastMessageTimestamp.toMillis() : 0`
ConvTime(c) == IF c.lastMessageTimestamp > 0 THEN c.lastMessageTimestamp ELSE 0

\* the stable Array.prototype.sort((a, b) => timeB - timeA)
RECURSIVE InsertByTimeDesc(_, _)
InsertByTimeDesc(c, sorted) ==
    IF sorted = <<>> THEN << c >>
    ELSE IF ConvTime(c) > ConvTime(Head(sorted)) THEN << c >> \o sorted
    ELSE << Head(sorted) >> \o InsertByTimeDesc(c, Tail(sorted))

RECURSIVE SortByTimeDesc(_, _)
SortByTimeDesc(s, acc) ==
    IF s = <<>> THEN acc ELSE SortByTimeDesc(Tail(s), InsertByTimeDesc(Head(s), acc))

\* variant: the list as delivered
Conversations_unsorted(conversations) == conversations

\* mobile chatService.subscribeConversations: what its callback passes on
Mobile_subscribeConversations(conversations) == SortByTimeDesc(conversations, <<>>)

\* mobile chatService.getAllConversations
Mobile_getAllConversations(conversations) == SortByTimeDesc(conversations, <<>>)

\* dashboard chatService.subscribeConversations: what its callback passes on
Dash_subscribeConversations(conversations) == SortByTimeDesc(conversations, <<>>)

\* dashboard chatService.getAllConversations
Dash_getAllConversations(conversations) == SortByTimeDesc(conversations, <<>>)

\* variant: a directory of the conversations whose roster yields a name
RECURSIVE Directory_resolvedOnly(_)
Directory_resolvedOnly(conversations) ==
    IF conversations = <<>> THEN <<>>
    ELSE (IF Dash_rosterName(Head(conversations).data.participantNames) = <<>> THEN <<>>
          ELSE << Dash_employee(Head(conversations).data) >>)
         \o Directory_resolvedOnly(Tail(conversations))

\* dashboard useChat.employeeList
employeeList(conversations) ==
    [ i \in DOMAIN conversations |-> Dash_employee(conversations[i].data) ]

\* getDocs on the collection: every document, in document-id order
RECURSIVE ConvDocsFrom(_, _)
ConvDocsFrom(st, i) ==
    IF i > Len(ListIdSeq) THEN <<>>
    ELSE (IF st[ListIdSeq[i]] # Absent THEN << ConvEntry(ListIdSeq[i], st[ListIdSeq[i]]) >>
          ELSE <<>>) \o ConvDocsFrom(st, i + 1)

ConvGetDocs(st) == ConvDocsFrom(st, 1)

\* position of a document in the orderBy('lastMessageTimestamp', 'desc')
\* query: a local pending write counts as the newest
QueryKey(ts) == IF ts = Pending THEN MaxTime + 1 ELSE ts

\* the documents with query key k, in descending document-id order
RECURSIVE ConvDocsWithKey(_, _, _)
ConvDocsWithKey(st, k, i) ==
    IF i < 1 THEN <<>>
    ELSE (IF st[ListIdSeq[i]] \notin {Absent, NoField} /\ QueryKey(st[ListIdSeq[i]]) = k
          THEN << ConvEntry(ListIdSeq[i], st[ListIdSeq[i]]) >> ELSE <<>>)
         \o ConvDocsWithKey(st, k, i - 1)

\* the listener's snapshot: documents that have the field, newest first
RECURSIVE ConvQueryFrom(_, _)
ConvQueryFrom(st, k) ==
    IF k < 1 THEN <<>>
    ELSE ConvDocsWithKey(st, k, Len(ListIdSeq)) \o ConvQueryFrom(st, k - 1)

ConvQuerySnapshot(st) == ConvQueryFrom(st, MaxTime + 1)

NoConvStore == [ id \in ListIds |-> Absent ]
ConvStores  == [ ListIds -> {Absent, NoField, Pending} \cup (1 .. MaxTime) ]

\* useState(LOADING_STATES.IDLE), useState(null); no listener yet
IdleSub == [ listener |-> "none", loadingState |-> "idle", error |-> "null" ]
Subscriptions == { "mobList", "mobChat", "dashList", "dashChat" }

ListIdle ==
    /\ convStore = NoConvStore
    /\ mobConversations = <<>> /\ dashConversations = <<>>
    /\ status = [ h \in Subscriptions |-> IdleSub ]

\* the conversations collection as the hooks find it
ConvStore_populate ==
    /\ convStore = NoConvStore
    /\ \A h \in Subscriptions : status[h].listener = "none"
    /\ \E st \in ConvStores \ {NoConvStore} : convStore' = st
    /\ UNCHANGED << mobConversations, dashConversations, status,
                    rosterVars, msgVars, listVars, hookVars, sendVars >>

\* the effect body with realtime on: setLoadingState(LOADING), setError(null),
\* then the listener is attached
Attach(h, loadingState) ==
    /\ status[h].listener = "none"
    /\ status' = [status EXCEPT ![h] = [ listener |-> "attached",
                                         loadingState |-> loadingState,
                                         error |-> "null" ]]

\* a listener callback: setLoadingState(SUCCESS)
Loaded(h) ==
    /\ status[h].listener = "attached"
    /\ status' = [status EXCEPT ![h].loadingState = "success"]

\* an onSnapshot error callback that only logs: the listener is gone, the
\* hook's state is as it was
LoggedOnly(h) ==
    /\ status[h].listener = "attached"
    /\ status' = [status EXCEPT ![h].listener = "failed"]

\* mobile useConversations: the realtime effect
Mobile_mountConversations ==
    /\ Attach("mobList", "loading")
    /\ UNCHANGED << convStore, mobConversations, dashConversations,
                    rosterVars, msgVars, listVars, hookVars, sendVars >>

\* mobile useConversations: the subscribeConversations callback
Mobile_onConversations ==
    /\ Loaded("mobList")
    /\ mobConversations' = Mobile_subscribeConversations(ConvQuerySnapshot(convStore))
    /\ UNCHANGED << convStore, dashConversations,
                    rosterVars, msgVars, listVars, hookVars, sendVars >>

\* mobile subscribeToCollection: the onSnapshot error callback
Mobile_conversationsError ==
    /\ LoggedOnly("mobList")
    /\ UNCHANGED << convStore, mobConversations, dashConversations,
                    rosterVars, msgVars, listVars, hookVars, sendVars >>

\* mobile useConversations.fetchConversations / refreshConversations, resolved
Mobile_fetchConversations ==
    /\ status["mobList"].loadingState # "idle"
    /\ mobConversations' = Mobile_getAllConversations(ConvGetDocs(convStore))
    /\ status' = [status EXCEPT !["mobList"].loadingState = "success",
                                !["mobList"].error = "null"]
    /\ UNCHANGED << convStore, dashConversations,
                    rosterVars, msgVars, listVars, hookVars, sendVars >>

\* mobile useConversations.fetchConversations, getAllConversations rejected
Mobile_fetchConversationsFailed ==
    /\ status["mobList"].loadingState # "idle"
    /\ status' = [status EXCEPT !["mobList"].loadingState = "error",
                                !["mobList"].error = "Failed to load conversations"]
    /\ UNCHANGED << convStore, mobConversations, dashConversations,
                    rosterVars, msgVars, listVars, hookVars, sendVars >>

\* dashboard useChat: the conversations effect, run when the hook mounts
Dash_mountConversations ==
    /\ dashSelected = "none"
    /\ Attach("dashList", "loading")
    /\ UNCHANGED << convStore, mobConversations, dashConversations,
                    rosterVars, msgVars, listVars, hookVars, sendVars >>

\* dashboard useChat: the subscribeConversations callback, setConversations(data || [])
Dash_onConversations ==
    /\ Loaded("dashList")
    /\ dashConversations' = Dash_subscribeConversations(ConvQuerySnapshot(convStore))
    /\ UNCHANGED << convStore, mobConversations,
                    rosterVars, msgVars, listVars, hookVars, sendVars >>

\* dashboard subscribeToCollection: the onSnapshot error callback
Dash_conversationsError ==
    /\ LoggedOnly("dashList")
    /\ UNCHANGED << convStore, mobConversations, dashConversations,
                    rosterVars, msgVars, listVars, hookVars, sendVars >>

\* mobile useChat: the realtime messages effect up to the attached listener
Mobile_mountMessages ==
    /\ Attach("mobChat", "loading")
    /\ UNCHANGED << convStore, mobConversations, dashConversations,
                    rosterVars, msgVars, listVars, hookVars, sendVars >>

\* mobile useChat: the subscribeMessages callback on a snapshot
Mobile_onMessages ==
    /\ Loaded("mobChat")
    /\ mobMessages' = Mobile_subscribeMessages(ConvDocs("A"), clock)
    /\ UNCHANGED << convStore, mobConversations, dashConversations, dashMessages,
                    rosterVars, msgVars, hookVars, sendVars >>

\* mobile subscribeToSubcollection: the onSnapshot error callback, callback([])
Mobile_messagesError ==
    /\ status["mobChat"].listener = "attached"
    /\ mobMessages' = Mobile_subscribeMessages(<<>>, clock)
    /\ status' = [status EXCEPT !["mobChat"].listener = "failed",
                                !["mobChat"].loadingState = "success"]
    /\ UNCHANGED << convStore, mobConversations, dashConversations, dashMessages,
                    rosterVars, msgVars, hookVars, sendVars >>

\* dashboard useChat: the messages effect for a selected conversation; the
\* loading state is left as it is
Dash_mountMessages ==
    /\ Attach("dashChat", "idle")
    /\ UNCHANGED << convStore, mobConversations, dashConversations,
                    rosterVars, msgVars, listVars, hookVars, sendVars >>

\* dashboard useChat: the subscribeMessages callback on a snapshot
Dash_onMessages ==
    /\ Loaded("dashChat")
    /\ dashMessages' = Dash_subscribeMessages(ConvDocs("A"))
    /\ UNCHANGED << convStore, mobConversations, dashConversations, mobMessages,
                    rosterVars, msgVars, hookVars, sendVars >>

\* dashboard subscribeToSubcollection: the onSnapshot error callback
Dash_messagesError ==
    /\ LoggedOnly("dashChat")
    /\ UNCHANGED << convStore, mobConversations, dashConversations,
                    rosterVars, msgVars, listVars, hookVars, sendVars >>

ListNext ==
    \/ ConvStore_populate
    \/ Mobile_mountConversations
    \/ Mobile_onConversations
    \/ Mobile_conversationsError
    \/ Mobile_fetchConversations
    \/ Mobile_fetchConversationsFailed
    \/ Dash_mountConversations
    \/ Dash_onConversations
    \/ Dash_conversationsError
    \/ Mobile_mountMessages
    \/ Mobile_onMessages
    \/ Mobile_messagesError
    \/ Dash_mountMessages
    \/ Dash_onMessages
    \/ Dash_messagesError

SwitchNext ==
    \/ Mobile_openConversation
    \/ Mobile_unmount
    \/ Storage_previousSession
    \/ Mobile_fetchResolved
    \/ Mobile_fetchRejected
    \/ Mobile_listenerSnapshot
    \/ useChat_sendChatMessage
    \/ Dash_mountConversations
    \/ Dash_onConversations
    \/ Dash_selectEmployee
    \/ Dash_clearSelection
    \/ Dash_listenerSnapshot

\* the subscriptions by themselves, over an empty conversations collection
LoadingNext ==
    \/ Mobile_mountConversations
    \/ Mobile_onConversations
    \/ Mobile_conversationsError
    \/ Dash_mountConversations
    \/ Dash_onConversations
    \/ Dash_conversationsError
    \/ Mobile_mountMessages
    \/ Mobile_onMessages
    \/ Mobile_messagesError
    \/ Dash_mountMessages
    \/ Dash_onMessages
    \/ Dash_messagesError

\* the dashboard useChat by itself: its conversations subscription, the
\* selection, the messages listener and a send that fails
SelectNext ==
    \/ ConvStore_populate
    \/ Dash_mountConversations
    \/ Dash_onConversations
    \/ Dash_conversationsError
    \/ Dash_selectEmployee
    \/ Dash_clearSelection
    \/ Dash_listenerSnapshot
    \/ Dash_sendHRMessageRejected

-----------------------------------------------------------------------------
(* Writes: getOrCreateConversation, sendMessage, sendMessageFromHR and the  *)
(* hooks' send operations, each await a step of its own.                    *)

MaxCalls == 3

LAST_MESSAGE_LENGTH == 100

\* utils/helpers generateEmployeeId: "Alice Johnson" -> "emp_alice_johnson"
generateEmployeeId(employeeName) ==
    EMP_PREFIX \o [ i \in DOMAIN employeeName |->
                      IF employeeName[i] = " " THEN "_"
                      ELSE ToLowerChar(employeeName[i]) ]

N_al == << "a", "l" >>

SendNames == { N_Al, N_al, N_Bo }
SendIds   == { generateEmployeeId(n) : n \in SendNames }

T_Hi   == << " ", "h", "i", " " >>
T_Long == [ i \in 1 .. LAST_MESSAGE_LENGTH + 1 |-> IF i = 1 THEN "a" ELSE "z" ]
\* what the employee types, and what HR types
MobileTexts == { T_Hi }
DashTexts   == { T_Long }

\* getDocumentById on a missing document: null
NoDoc == [ exists |-> FALSE, participantNames |-> Undefined,
           lastMessage |-> <<>>, lastMessageSenderId |-> Undefined ]

\* conversationData of getOrCreateConversation, as setDoc stores it
conversationData(employeeName) ==
    [ exists |-> TRUE,
      participantNames |-> Arr(<< Str(HR_USER_NAME), Str(employeeName) >>),
      lastMessage |-> <<>>,
      lastMessageSenderId |-> Undefined ]

\* messageData of sendMessage
messageData(id, senderId, messageText) ==
    [ id |-> id, senderId |-> senderId, text |-> Trim(messageText) ]

\* the fields sendMessage's update merges into the conversation document
lastMessageUpdate(doc, senderId, messageText) ==
    [ doc EXCEPT !.lastMessage = Substring0(Trim(messageText), LAST_MESSAGE_LENGTH),
                 !.lastMessageSenderId = senderId ]

Call(fn, pc, id, senderId, text, name) ==
    [ fn |-> fn, pc |-> pc, id |-> id, senderId |-> senderId, text |-> text, name |-> name ]

NoCalls == [ started |-> 0, active |-> <<>> ]

SendIdle ==
    /\ convDoc = [ id \in SendIds |-> NoDoc ]
    /\ sentMessages = <<>>
    /\ calls = NoCalls

\* rosters of conversation documents written by earlier versions and by
\* hand: JSON text, JSON text cut short, a padded first name, no names
LegacyRosters ==
    { EncJson(HR_USER_NAME, N_Bo, CommaSpace),
      Str(Truncated(HR_USER_NAME, N_Bo)),
      EncArray(<< " " >> \o HR_USER_NAME, N_Bo),
      Arr(<<>>) }

LEGACY_ID == generateEmployeeId(N_Bo)

\* the collection holds such a document before any call is made
Store_legacyConversation ==
    /\ calls = NoCalls
    /\ ~convDoc[LEGACY_ID].exists
    /\ \E pn \in LegacyRosters :
          convDoc' = [ convDoc EXCEPT ![LEGACY_ID] =
                         [ exists |-> TRUE, participantNames |-> pn,
                           lastMessage |-> <<>>, lastMessageSenderId |-> Undefined ] ]
    /\ UNCHANGED << sentMessages, calls, rosterVars, msgVars, listVars, hookVars, dirVars >>

Begin(call) ==
    /\ calls.started < MaxCalls
    /\ calls' = [ started |-> calls.started + 1, active |-> Append(calls.active, call) ]

Without(s, k) == [ i \in 1 .. Len(s) - 1 |-> IF i < k THEN s[i] ELSE s[i + 1] ]

\* the call's promise settles (resolved or rejected)
Settle(k) == calls' = [ calls EXCEPT !.active = Without(calls.active, k) ]

Advance(k, pc) == calls' = [ calls EXCEPT !.active[k].pc = pc ]

\* getOrCreateConversation(employeeName) is called (either app)
getOrCreateConversation_call ==
    /\ \E n \in SendNames :
          Begin(Call("getOrCreateConversation", "getDocumentById",
                     generateEmployeeId(n), Undefined, <<>>, n))
    /\ UNCHANGED << convDoc, sentMessages, rosterVars, msgVars, listVars, hookVars, dirVars >>

\* await getDocumentById: an existing conversation is returned as it is,
\* a missing one is going to be created
getOrCreateConversation_getDocumentById ==
    /\ \E k \in DOMAIN calls.active :
          /\ calls.active[k].fn = "getOrCreateConversation"
          /\ calls.active[k].pc = "getDocumentById"
          /\ IF convDoc[calls.active[k].id].exists THEN Settle(k) ELSE Advance(k, "setDoc")
    /\ UNCHANGED << convDoc, sentMessages, rosterVars, msgVars, listVars, hookVars, dirVars >>

\* await setDoc(docRef, conversationData): the document is written whole
getOrCreateConversation_setDoc ==
    /\ \E k \in DOMAIN calls.active :
          /\ calls.active[k].fn = "getOrCreateConversation"
          /\ calls.active[k].pc = "setDoc"
          /\ convDoc' = [ convDoc EXCEPT ![calls.active[k].id] =
                                             conversationData(calls.active[k].name) ]
          /\ Settle(k)
    /\ UNCHANGED << sentMessages, rosterVars, msgVars, listVars, hookVars, dirVars >>

\* mobile useChat.sendChatMessage: sendMessage(empId, empName, messageText)
Mobile_sendChatMessage ==
    /\ \E n \in SendNames, text \in MobileTexts :
          Begin(Call("sendMessage", "addDoc", generateEmployeeId(n), Str(n), text, <<>>))
    /\ UNCHANGED << convDoc, sentMessages, rosterVars, msgVars, listVars, hookVars, dirVars >>

\* dashboard useChat.sendChatMessage: sendMessage(currentEmployeeId, senderId, messageText)
Dash_sendChatMessage ==
    /\ \E id \in SendIds, text \in DashTexts :
          Begin(Call("sendMessage", "addDoc", id, Str(HR_USER_NAME), text, <<>>))
    /\ UNCHANGED << convDoc, sentMessages, rosterVars, msgVars, listVars, hookVars, dirVars >>

\* dashboard useChat.sendHRMessage: sendMessageFromHR(currentEmployeeId, messageText)
\* (sendMessageFromHR throws at once on a falsy conversationId)
Dash_sendHRMessage ==
    /\ \E id \in SendIds \cup { <<>> }, text \in DashTexts :
          IF id = <<>>
          THEN /\ calls.started < MaxCalls
               /\ calls' = [ calls EXCEPT !.started = calls.started + 1 ]
          ELSE Begin(Call("sendMessageFromHR", "getDocumentById", id, Undefined, text, <<>>))
    /\ UNCHANGED << convDoc, sentMessages, rosterVars, msgVars, listVars, hookVars, dirVars >>

\* sendMessageFromHR: await getDocumentById, then the sender is the roster's
\* first name; it throws when there is no conversation or no such name
sendMessageFromHR_getDocumentById ==
    /\ \E k \in DOMAIN calls.active :
          /\ calls.active[k].fn = "sendMessageFromHR"
          /\ calls.active[k].pc = "getDocumentById"
          /\ IF ~convDoc[calls.active[k].id].exists
                \/ Falsy(Dash_getHRNameFromParticipantNames(
                             convDoc[calls.active[k].id].participantNames))
             THEN Settle(k)
             ELSE calls' = [ calls EXCEPT
                    !.active[k].pc = "addDoc",
                    !.active[k].senderId = Dash_getHRNameFromParticipantNames(
                                               convDoc[calls.active[k].id].participantNames) ]
    /\ UNCHANGED << convDoc, sentMessages, rosterVars, msgVars, listVars, hookVars, dirVars >>

\* sendMessage: await addDoc, the message document is in the subcollection
sendMessage_addDoc ==
    /\ \E k \in DOMAIN calls.active :
          /\ calls.active[k].pc = "addDoc"
          /\ sentMessages' = Append(sentMessages,
                                    messageData(calls.active[k].id, calls.active[k].senderId,
                                                calls.active[k].text))
          /\ Advance(k, "updateDoc")
    /\ UNCHANGED << convDoc, rosterVars, msgVars, listVars, hookVars, dirVars >>

\* sendMessage: await updateDoc, which rejects when the conversation
\* document does not exist
sendMessage_updateDoc ==
    /\ \E k \in DOMAIN calls.active :
          /\ calls.active[k].pc = "updateDoc"
          /\ convDoc' = IF convDoc[calls.active[k].id].exists
                        THEN [ convDoc EXCEPT ![calls.active[k].id] =
                                 lastMessageUpdate(convDoc[calls.active[k].id],
                                                   calls.active[k].senderId,
                                                   calls.active[k].text) ]
                        ELSE convDoc
          /\ Settle(k)
    /\ UNCHANGED << sentMessages, rosterVars, msgVars, listVars, hookVars, dirVars >>

SendNext ==
    \/ Store_legacyConversation
    \/ getOrCreateConversation_call
    \/ getOrCreateConversation_getDocumentById
    \/ getOrCreateConversation_setDoc
    \/ Mobile_sendChatMessage
    \/ Dash_sendChatMessage
    \/ Dash_sendHRMessage
    \/ sendMessageFromHR_getDocumentById
    \/ sendMessage_addDoc
    \/ sendMessage_updateDoc

-----------------------------------------------------------------------------
(* Specifications *)

Init == RosterIdle /\ MsgIdle /\ HookIdle /\ ListIdle /\ SendIdle

RosterSpec   == Init /\ [][RosterNext]_vars
MsgSpec      == Init /\ [][MsgNext]_vars
PipelineSpec == Init /\ [][PipelineNext]_vars
SwitchSpec   == Init /\ [][SwitchNext]_vars
ListSpec     == Init /\ [][ListNext]_vars
SendSpec     == Init /\ [][SendNext]_vars
MultiSpec    == Init /\ [][MultiNext]_vars
SelectSpec   == Init /\ [][SelectNext]_vars

\* every attached listener gets an outcome: Firestore calls the snapshot
\* callback or the error callback of a subscription
LoadingSpec ==
    /\ Init /\ [][LoadingNext]_vars
    /\ WF_vars(Mobile_onConversations \/ Mobile_conversationsError)
    /\ WF_vars(Dash_onConversations \/ Dash_conversationsError)
    /\ WF_vars(Mobile_onMessages \/ Mobile_messagesError)

-----------------------------------------------------------------------------
(* Claims *)

\* the rosters that encode a pair of names, and the pair each one encodes
EncodedRosters == UNION { Encodings(ab[1], ab[2]) : ab \in Names \X Names }
PairOf == [ pn \in EncodedRosters |->
              CHOOSE ab \in Names \X Names : pn \in Encodings(ab[1], ab[2]) ]
Provenance(pn) == IF pn \in EncodedRosters THEN { PairOf[pn] } ELSE {}

\* a name that reads as the text of a JSON array
ArrayText(a) == StartsWith(a, << "[" >>) /\ JSONparse(a).ok /\ IsArr(JSONparse(a).val)

PlainNames(pn) ==
    \A ab \in Provenance(pn) : ~StartsWith(ab[1], << "[" >>) /\ ~StartsWith(ab[2], << "[" >>)

\* classify(senderId, [P, S]) = Primary by the ordered checks
IsPrimary(senderId, P, S) ==
    \/ senderId = P
    \/ /\ senderId # S
       /\ Includes(senderId, HR_MARKER) \/ senderId = HR_USER_ID

\* C2: for every senderId and every roster [P, S] with a trimmed P, both
\* dashboard classifiers (MessageBubble isFromHR, useChat.isHRMessage) say HR
\* exactly when the ordered checks say Primary; a senderId equal to S is
\* never HR.
C2_DashboardPrecedence ==
    (conv.loaded /\ sender # <<>>) =>
        \A ab \in Provenance(conv.participantNames) :
            (ab[1] = Trim(ab[1]) /\ ~ArrayText(ab[1])) =>
                /\ MessageBubble_isFromHR(sender, conv.participantNames)
                       = IsPrimary(sender, ab[1], ab[2])
                /\ Dash_isHRMessage(sender, conv.participantNames)
                       = IsPrimary(sender, ab[1], ab[2])

\* the roster [P, S] as the array or as its JSON string
FlatEncodings(P, S) == { EncArray(P, S), EncJson(P, S, Comma), EncJson(P, S, CommaSpace) }

Legacy(senderId) == Includes(senderId, HR_MARKER) \/ senderId = HR_USER_ID

\* C3: for a roster [P, S], P # S, S without the marker and not the HR id,
\* given as the array or as its JSON string: senderId = S is sent on mobile
\* and not HR on the dashboard; senderId = P is HR in both apps and not sent;
\* any other senderId without a legacy convention is neither; and the JSON
\* string classifies as the array does.
C3_EndToEnd ==
    (conv.loaded /\ sender # <<>>) =>
        \A ab \in Provenance(conv.participantNames) :
            ( /\ conv.participantNames \in FlatEncodings(ab[1], ab[2])
              /\ ~ArrayText(ab[1])
              /\ ab[1] # ab[2] /\ ~Legacy(ab[2]) ) =>
                LET pn     == conv.participantNames
                    asArr  == [conv EXCEPT !.participantNames = EncArray(ab[1], ab[2])]
                    sent   == Mobile_isSentMessage(sender, Mobile_currentEmployeeName(conv), conv)
                    hrMob  == Mobile_isHRMessage(sender, conv)
                    hrDash == MessageBubble_isFromHR(sender, pn)
                IN  /\ sender = ab[2] => sent /\ ~hrDash
                    /\ sender = ab[1] => hrDash /\ hrMob /\ ~sent
                    /\ (sender \notin {ab[1], ab[2]} /\ ~Legacy(sender)) => ~hrDash /\ ~sent
                    /\ sent = Mobile_isSentMessage(sender, Mobile_currentEmployeeName(asArr), asArr)
                    /\ hrMob = Mobile_isHRMessage(sender, asArr)
                    /\ hrDash = MessageBubble_isFromHR(sender, asArr.participantNames)

\* C8: the title the mobile list shows is never a string that starts with "["
\* or contains '", "'.
C8_TitleNeverEncoded ==
    (out.op = "Mobile_title" /\ PlainNames(conv.participantNames) /\ out.val.t = "str") =>
        /\ ~StartsWith(out.val.v, << "[" >>)
        /\ ~Includes(out.val.v, << "\"", ",", " ", "\"" >>)

\* C9: the name of a dashboard directory entry is never the raw
\* participantNames text or a raw JSON array text.
C9_DirectoryNeverRaw ==
    (out.op = "Dash_employee" /\ PlainNames(conv.participantNames)) =>
        ~StartsWith(out.val.v, << "[" >>)

\* C10: building the mobile conversation list, the dashboard directory and the
\* HR-name resolvers returns a value for every shape of participantNames.
C10_NeverThrows == out.val.t # "throw"

\* the list the dashboard chat window renders
Dash_displayed == sortedMessages(dashMessages)

\* C5: on every load path of both apps the displayed messages hold no message
\* whose timestamp is missing or still the server-timestamp placeholder.
C5_PendingHidden ==
    /\ \A i \in DOMAIN mobMessages : mobMessages[i].ts # Pending
    /\ \A i \in DOMAIN Dash_displayed : Dash_displayed[i].ts # Pending

\* two messages displayed before and after a step keep their relative order
OrderKept(before, after) ==
    \A i, j \in DOMAIN before :
        i < j =>
            \A k, l \in DOMAIN after :
                (after[k].id = before[i].id /\ after[l].id = before[j].id) => k < l

\* C6: two messages displayed both before and after a delivery keep their
\* relative order, in both apps.
C6_StableOrder ==
    [][ /\ OrderKept(mobMessages, mobMessages')
        /\ OrderKept(sortedMessages(dashMessages), sortedMessages(dashMessages')) ]_vars

NoDuplicateIds(list) ==
    \A i, j \in DOMAIN list : list[i].id = list[j].id => i = j

\* C7: whatever a snapshot delivers, the displayed messages of each app hold
\* at most one entry per message id.
C7_DedupById ==
    /\ NoDuplicateIds(mobMessages)
    /\ NoDuplicateIds(Dash_displayed)

\* C4: while conversation c stays open, a step that changes the displayed
\* message list sets it to a snapshot of c, and a step that changes the roster
\* in use sets it to the roster of c, in both apps.
C4_NoStaleSnapshot ==
    [][ /\ (employeeId \in ConvIds /\ employeeId' = employeeId) =>
               /\ mobMessages' # mobMessages =>
                      mobMessages' = Mobile_subscribeMessages(ConvDocs(employeeId), clock)
               /\ conversation' # conversation => conversation' = employeeId
        /\ (dashSelected \in ConvIds /\ dashSelected' = dashSelected) =>
               (dashMessages' # dashMessages =>
                    dashMessages' = Dash_subscribeMessages(ConvDocs(dashSelected))) ]_vars

-----------------------------------------------------------------------------
(* The directory's fallback chain *)

\* the roster's secondary slot: non-empty when the roster has one
SecondarySlot(namesArray) ==
    IF Len(namesArray) >= 2 /\ IsStr(namesArray[2]) THEN Trim(namesArray[2].v) ELSE <<>>

\* the first roster entry that is not the HR name and carries no "(HR)"
FirstNotHR(namesArray) ==
    IF NotHRPositions(namesArray) = {} THEN <<>>
    ELSE Trim(namesArray[Least(NotHRPositions(namesArray))].v)

\* steps (1) and (2) in the order of the chain: the secondary slot first
SecondaryThenNotHR(namesArray) ==
    IF SecondarySlot(namesArray) # <<>> THEN SecondarySlot(namesArray)
    ELSE FirstNotHR(namesArray)

\* C11: the directory name of a conversation is the first success of:
\* (1) the roster's secondary slot, (2) the first roster entry that is not the
\* HR name, (3) the name derived from the id, (4) a name scraped from the last
\* message, (5) the "Conversation" placeholder.
C11_FallbackOrder ==
    out.op = "Dash_employee" =>
        out.val = Str(NameOrId(IF Falsy(conv.participantNames) THEN <<>>
                               ELSE SecondaryThenNotHR(Dash_namesArray(conv.participantNames)),
                               conv))

-----------------------------------------------------------------------------
(* The last-message prefix *)

\* a stored value from which no roster can be read
Unresolvable(pn) ==
    \/ Falsy(pn)
    \/ ~IsStr(pn) /\ ~IsArr(pn)
    \/ IsStr(pn) /\ (~StartsWith(pn.v, << "[" >>) \/ ~JSONparse(pn.v).ok)

\* the sender matches no name of [P, S] and no legacy convention
IsUnknown(senderId, P, S) == senderId # P /\ senderId # S /\ ~Legacy(senderId)

\* the prefixes of both lists for the roster [P, S] and a present sender
PrefixesFor(P, S) ==
    /\ out.op = "Dash_prefix" =>
          /\ sender = P => out.val.v = YOU_PREFIX
          /\ sender = S => out.val.v = truncateString(S, PREFIX_LENGTH) \o COLON_SPACE
          /\ IsUnknown(sender, P, S) => out.val.v = <<>>
    /\ out.op = "Mobile_prefix" =>
          /\ sender = S => out.val.v = YOU_PREFIX
          /\ sender = P => out.val.v = truncateString(P, PREFIX_LENGTH) \o COLON_SPACE
          /\ IsUnknown(sender, P, S) => out.val.v = <<>>

\* the prefix is empty without a sender and without a roster
PrefixEmptyWithout ==
    (out.op \in {"Dash_prefix", "Mobile_prefix"}
     /\ (sender = <<>> \/ Unresolvable(conv.participantNames))) => out.val.v = <<>>

-----------------------------------------------------------------------------
(* Trimming of roster names *)

\* the classifications and prefixes for a sender equal to the trimmed P or S
TrimmedMatches(P, S) ==
    /\ (out.op \in {"Mobile_isHRMessage", "MessageBubble", "Dash_isHRMessage"}
        /\ sender = Trim(P)) => out.val = JTrue
    /\ (out.op = "Dash_prefix" /\ sender = Trim(P)) => out.val.v = YOU_PREFIX
    /\ (out.op = "Mobile_prefix" /\ sender = Trim(S)) => out.val.v = YOU_PREFIX

\* C16: roster names are trimmed before they are compared: for a roster
\* stored as [P, S] with surrounding whitespace, a sender equal to the trimmed
\* P is Primary (HR in both apps' classifiers, "You: " in the dashboard list)
\* and a sender equal to the trimmed S is Secondary ("You: " in the mobile list).
C16_TrimmedBeforeUse ==
    \A ab \in Provenance(conv.participantNames) :
        (sender # <<>> /\ Trim(ab[1]) # Trim(ab[2]) /\ ~ArrayText(ab[1]))
            => TrimmedMatches(ab[1], ab[2])

-----------------------------------------------------------------------------
(* Malformed and nested roster encodings *)

\* a string that begins with '[' and is not valid JSON
MalformedText(pn) == IsStr(pn) /\ StartsWith(pn.v, << "[" >>) /\ ~JSONparse(pn.v).ok

RosterResolvers ==
    { "Mobile_getHRName", "Mobile_getEmployeeName", "getHRNameFromConversation",
      "getEmployeeNameFromConversation", "Dash_getHRName" }

\* C17: a participantNames string that begins with '[' and is not valid JSON
\* resolves to null / empty in every resolver, the dashboard resolver that
\* gives sendMessageFromHR its senderId included.
C17_MalformedUnresolved ==
    (out.op \in RosterResolvers /\ MalformedText(conv.participantNames)) => Falsy(out.val)


\* an array whose first element is the text of an array of names
NestedRoster(pn) ==
    /\ IsArr(pn) /\ Len(pn.v) >= 1
    /\ IsStr(pn.v[1]) /\ ArrayText(pn.v[1].v)
    /\ Len(JSONparse(pn.v[1].v).val.v) >= 1
    /\ \A i \in DOMAIN JSONparse(pn.v[1].v).val.v : IsStr(JSONparse(pn.v[1].v).val.v[i])

\* the array parsed from the first element
NestedNames(pn) == JSONparse(pn.v[1].v).val.v

\* C18: when participantNames is an array whose first element parses to an
\* array of names, every resolver uses the parsed array as the roster, whatever
\* the length of the outer array: the mobile resolvers return its first name,
\* the dashboard resolver its first name trimmed, and the directory the name
\* its chain takes from the parsed array.
C18_NestedAnyLength ==
    NestedRoster(conv.participantNames) =>
        /\ out.op \in {"Mobile_getHRName", "getHRNameFromConversation"} =>
               out.val = NestedNames(conv.participantNames)[1]
        /\ out.op = "Dash_getHRName" =>
               out.val = Str(Trim(NestedNames(conv.participantNames)[1].v))
        /\ out.op = "Dash_employee" =>
               out.val = Str(NameOrId(RosterNameIn(NestedNames(conv.participantNames)), conv))


-----------------------------------------------------------------------------
(* Conversation list order *)

Unresolved(c) == c.lastMessageTimestamp \in {Pending, NoField}

NewestFirst(list) ==
    \A i, j \in DOMAIN list :
        i < j => /\ ConvTime(list[i]) >= ConvTime(list[j])
                 /\ (Unresolved(list[i]) => Unresolved(list[j]))

\* C13: the conversation lists that subscribeConversations hands to its
\* callback and that getAllConversations returns, in both apps, are in
\* descending lastMessageTimestamp order with every conversation whose
\* timestamp is absent or still pending after every resolved one.
C13_ListOrder ==
    /\ NewestFirst(mobConversations)
    /\ NewestFirst(dashConversations)
    /\ NewestFirst(Mobile_subscribeConversations(ConvQuerySnapshot(convStore)))
    /\ NewestFirst(Mobile_getAllConversations(ConvGetDocs(convStore)))
    /\ NewestFirst(Dash_subscribeConversations(ConvQuerySnapshot(convStore)))
    /\ NewestFirst(Dash_getAllConversations(ConvGetDocs(convStore)))

\* the listener delivered a pending write first and two resolved
\* conversations out of id order; the callback got them newest first with
\* the pending one last
C13_Witness ==
    /\ status["mobList"].loadingState = "success"
    /\ Len(ConvQuerySnapshot(convStore)) = 3
    /\ Unresolved(ConvQuerySnapshot(convStore)[1])
    /\ mobConversations = Mobile_subscribeConversations(ConvQuerySnapshot(convStore))
    /\ mobConversations[1].lastMessageTimestamp = 2
    /\ mobConversations[2].lastMessageTimestamp = 1
    /\ mobConversations[3].lastMessageTimestamp = Pending

-----------------------------------------------------------------------------
(* The directory keeps every conversation *)

PLACEHOLDER_c2 == << "C","o","n","v","e","r","s","a","t","i","o","n"," ","c","2" >>

-----------------------------------------------------------------------------
(* Listener errors *)

ShownAsError(h) ==
    /\ status[h].loadingState = "error"
    /\ status[h].error # "null"

ShownAsEmptySuccess(h) ==
    /\ status[h].loadingState = "success"
    /\ h = "mobChat" => mobMessages = <<>>
    /\ h = "dashChat" => dashMessages = <<>>
    /\ h = "mobList" => mobConversations = <<>>
    /\ h = "dashList" => dashConversations = <<>>

\* C15: once the store has reported an error to a conversations or messages
\* listener, the owning hook is in its ERROR state with a non-null error, and
\* is not showing a successful load of an empty list.
C15_ErrorVisible ==
    \A h \in Subscriptions :
        status[h].listener = "failed" => ShownAsError(h) /\ ~ShownAsEmptySuccess(h)


-----------------------------------------------------------------------------
(* Last-message metadata *)

MessagesOf(id) == SelectSeq(sentMessages, LAMBDA m : m.id = id)

NewestOf(id) == MessagesOf(id)[Len(MessagesOf(id))]

\* C19: once every call has completed, a conversation whose metadata was
\* written by sendMessage has the text (cut to 100 characters) and the
\* senderId of its newest message as lastMessage and lastMessageSenderId,
\* whatever the interleaving of the two apps' sendMessage calls was.
C19_LastMessageIsNewest ==
    calls.active = <<>> =>
        \A id \in SendIds :
            /\ convDoc[id].exists
            /\ convDoc[id].lastMessageSenderId # Undefined
            /\ MessagesOf(id) # <<>>
            => /\ convDoc[id].lastMessage =
                      Substring0(NewestOf(id).text, LAST_MESSAGE_LENGTH)
               /\ convDoc[id].lastMessageSenderId = NewestOf(id).senderId

-----------------------------------------------------------------------------
(* Roster and messages are not rewritten *)

RosterKept ==
    \A id \in SendIds :
        convDoc[id].exists =>
            /\ convDoc'[id].exists
            /\ convDoc'[id].participantNames = convDoc[id].participantNames

MessagesKept ==
    /\ Len(sentMessages') >= Len(sentMessages)
    /\ SubSeq(sentMessages', 1, Len(sentMessages)) = sentMessages

\* C20: no step of getOrCreateConversation, sendMessage, sendMessageFromHR or
\* the hooks' send operations changes the participantNames of a conversation
\* that exists, deletes a conversation, or removes or alters a message that
\* was added.
C20_NothingRewritten == [][RosterKept /\ MessagesKept]_vars


-----------------------------------------------------------------------------
(* One message, two apps *)

MineOnDashboard == MessageBubble_isFromHR(sender, conv.participantNames)

MineOnMobile == Mobile_isSentMessage(sender, Mobile_currentEmployeeName(conv), conv)

\* C28: for every resolvable roster [P, S] with P # S (also after trimming)
\* and every senderId, the
\* dashboard's own-message decision (MessageBubble isFromHR) and the mobile
\* app's own-message decision (isSentMessage against the secondary name) are
\* not both true.
C28_NeverMineInBoth ==
    (conv.loaded /\ sender # <<>>) =>
        \A ab \in Provenance(conv.participantNames) :
            (Trim(ab[1]) # Trim(ab[2]) /\ ~ArrayText(ab[1])) =>
                ~(MineOnDashboard /\ MineOnMobile)


-----------------------------------------------------------------------------
(* sendMessageFromHR writes only with a resolved HR name *)

FirstOfNames(names) ==
    IF Len(names) > 0 /\ IsStr(names[1]) /\ Trim(names[1].v) # <<>>
    THEN Str(Trim(names[1].v)) ELSE JNull

\* the trimmed first name of a roster kept as an array or as the JSON text of
\* an array; JNull when there is none
FirstRosterName(pn) ==
    IF IsArr(pn) THEN FirstOfNames(pn.v)
    ELSE IF IsStr(pn) /\ JSONparse(pn.v).ok /\ IsArr(JSONparse(pn.v).val)
         THEN FirstOfNames(JSONparse(pn.v).val.v)
    ELSE JNull

WritingFromHR(c) == c.fn = "sendMessageFromHR" /\ c.pc \in { "addDoc", "updateDoc" }

\* C26: a sendMessageFromHR call gets to its writes only when the conversation
\* document exists and an HR name resolves from its participantNames, and the
\* senderId it writes is the trimmed first roster name; in every other case it
\* has rejected before any write.
C26_HRWritesResolved ==
    \A k \in DOMAIN calls.active :
        WritingFromHR(calls.active[k]) =>
            /\ convDoc[calls.active[k].id].exists
            /\ FirstRosterName(convDoc[calls.active[k].id].participantNames) # JNull
            /\ calls.active[k].senderId =
                   FirstRosterName(convDoc[calls.active[k].id].participantNames)


-----------------------------------------------------------------------------
(* sendMessage: the message and the conversation's metadata together *)

\* call k is in its last await and the step settles it
Finishes(k) ==
    /\ calls.active[k].pc = "updateDoc"
    /\ calls'.active = Without(calls.active, k)

UpdatedFor(doc, c) ==
    /\ doc.exists
    /\ doc.lastMessage = Substring0(Trim(c.text), LAST_MESSAGE_LENGTH)
    /\ doc.lastMessageSenderId = c.senderId

\* C24: when a sendMessage call that has added its message document finishes,
\* the conversation's lastMessage and lastMessageSenderId have been updated
\* for that message: no call ends rejected with its message left behind.
C24_AllOrNothing ==
    [][ \A k \in DOMAIN calls.active :
            Finishes(k) => UpdatedFor(convDoc'[calls.active[k].id], calls.active[k]) ]_vars


-----------------------------------------------------------------------------
(* getOrCreateConversation and an existing conversation *)

\* call k is at its setDoc and the step performs it
Creates(k) ==
    /\ calls.active[k].pc = "setDoc"
    /\ calls'.active = Without(calls.active, k)

MetadataKept ==
    \A id \in SendIds :
        (convDoc[id].exists /\ convDoc[id].lastMessageSenderId # Undefined) =>
            convDoc'[id].lastMessageSenderId # Undefined

\* C25: in every interleaving of getOrCreateConversation and sendMessage
\* calls, the setDoc of getOrCreateConversation is never performed on a
\* conversation document that exists, and the last-message metadata that a
\* sendMessage wrote is never reset.
C25_CreateNeverOverwrites ==
    [][ /\ \A k \in DOMAIN calls.active :
              Creates(k) => ~convDoc[calls.active[k].id].exists
        /\ MetadataKept ]_vars


-----------------------------------------------------------------------------
(* The mobile useChat's idea of the employee across conversations *)

\* the hook's `conversation` state as a record
ConversationState == IF conversation = "none" THEN NoConversation ELSE ConvRecord(conversation)

\* isSentMessage agrees with what a hook that only ever loaded the present
\* conversation record answers
SameAsFreshHook(senderId) ==
    Mobile_isSentMessage(senderId, mobEmployeeName, ConversationState)
        = Mobile_isSentMessage(senderId, Mobile_currentEmployeeName(ConversationState),
                               ConversationState)

\* C21: in the mobile useChat, isSentMessage and getMessageType of a message
\* depend on the sender and the loaded conversation roster only: whatever was
\* opened before and whatever AsyncStorage held, the answer is the one a hook
\* gives that loaded only this conversation
C21_ClassifyIgnoresHistory ==
    conversation # "none" => \A senderId \in { N_Al, N_Bo } : SameAsFreshHook(senderId)

\* the same with every loaded roster naming an employee
C21_WithEmployeeNames ==
    (conversation # "none" /\ ~Falsy(ConvEmployeeName(conversation)))
        => \A senderId \in { N_Al, N_Bo } : SameAsFreshHook(senderId)

\* the history the comparison is made with happens: a conversation loaded
\* and the name state that of its roster
C21_FreshReached ==
    ~(conversation = "A" /\ mobEmployeeName = Str(N_Al) /\ lastSend = NoSend
      /\ Len(effects) = 1)

\* C23: every sendMessage call of the mobile sendChatMessage goes to the
\* conversation on screen, with the employee name of that conversation's
\* roster as senderId
C23_SendsToOpenConversation ==
    lastSend # NoSend => /\ lastSend.to = lastSend.screen
                         /\ lastSend.senderId = ConvEmployeeName(lastSend.screen)

\* the same for sends made while AsyncStorage holds nothing
C23_FromDocument ==
    [][ (lastSend' # lastSend /\ ~StoredInfo)
          => /\ lastSend'.to = lastSend'.screen
             /\ lastSend'.senderId = ConvEmployeeName(lastSend'.screen) ]_vars

\* a send on the screen of the conversation the storage was written for
C23_OwnConversationReached ==
    ~(lastSend # NoSend /\ lastSend.to = lastSend.screen /\ lastSend.screen = "B"
      /\ lastSend.senderId = Str(N_Bo))


-----------------------------------------------------------------------------
(* useMultipleRealtime *)

\* C30: useMultipleRealtime has loading false only when every configured
\* listener has delivered a snapshot, and data then holds an entry for every
\* listener key
C30_LoadedMeansAllLoaded ==
    (multi.mounted /\ ~multi.loading) => \A key \in multi.listeners : multi.data[key] > 0

\* the same while no listener has delivered a second snapshot
C30_FirstSnapshotsOnly ==
    (multi.mounted /\ ~multi.loading /\ \A key \in ListenerKeys : multi.data[key] <= 1)
        => \A key \in multi.listeners : multi.data[key] > 0

\* three listeners, each delivered once, loading false
C30_AllLoadedReached ==
    ~(multi.mounted /\ ~multi.loading /\ multi.listeners = ListenerKeys
      /\ \A key \in ListenerKeys : multi.data[key] = 1)


-----------------------------------------------------------------------------
(* Dashboard selectEmployee *)

\* the conversations list of the dashboard is loading
ConversationsLoading == status["dashList"].loadingState = "loading"

\* a step that selects another conversation
SelectsAnother == dashSelected' # dashSelected /\ dashSelected' # "none"

-----------------------------------------------------------------------------
(* Loading states *)

\* the loading state of subscription h is LOADING / has left LOADING
Loading(h)     == status[h].loadingState = "loading"
LoadingDone(h) == status[h].loadingState \in { "success", "error" }

\* C29: once the dashboard useChat has started its conversations subscription,
\* conversationsLoading becomes SUCCESS or ERROR whatever the outcome of the
\* subscription, and so do the loading states of the mobile useConversations
\* and useChat
C29_LoadingEnds ==
    /\ Loading("dashList") ~> LoadingDone("dashList")
    /\ Loading("mobList")  ~> LoadingDone("mobList")
    /\ Loading("mobChat")  ~> LoadingDone("mobChat")

\* the mobile useChat alone
C29_MobileChatEnds == Loading("mobChat") ~> LoadingDone("mobChat")

\* the same when no listener reports an error
C29_WithoutListenerErrors ==
    [](status["dashList"].listener # "failed" /\ status["mobList"].listener # "failed")
        => C29_LoadingEnds


-----------------------------------------------------------------------------
(* Resolved messages on display *)

\* the messages of the conversation whose timestamp is resolved
Resolved(st) == { Msg(id, st[id]) : id \in { i \in MsgIds : st[i] > 0 } }

\* the listener of the mobile app / of the dashboard delivers a snapshot of
\* the store and the hook's list changes
MobileDelivery ==
    mobMessages' # mobMessages /\ mobMessages' = Mobile_subscribeMessages(QuerySnapshot(store), clock)
DashDelivery ==
    dashMessages' # dashMessages /\ dashMessages' = Dash_subscribeMessages(QuerySnapshot(store))

\* C22: a message whose server timestamp is resolved in a snapshot of the
\* open conversation is in the displayed sequence after that snapshot, in
\* both apps
C22_ResolvedShown ==
    [][ /\ MobileDelivery => Resolved(store) \subseteq Range(mobMessages')
        /\ DashDelivery => Resolved(store) \subseteq Range(sortedMessages(dashMessages')) ]_vars

\* the dashboard alone
C22_Dashboard ==
    [][ DashDelivery => Resolved(store) \subseteq Range(sortedMessages(dashMessages')) ]_vars

\* the mobile app while no timestamp is ahead of the device clock by more
\* than the margin
C22_MobileClockNotBehind ==
    [][ (MobileDelivery /\ \A m \in Resolved(store) : m.ts <= clock + FutureMargin)
            => Resolved(store) \subseteq Range(mobMessages') ]_vars

\* a resolved message delivered to and shown by both apps
C22_ShownReached ==
    ~(store["m1"] = 2 /\ Msg("m1", 2) \in Range(mobMessages)
      /\ Msg("m1", 2) \in Range(sortedMessages(dashMessages)))

=============================================================================
